---- MODULE Spec2Model ----
(***************************************************************************)
(* Ticket-routing decision engine of freedom_case_2 (backend/internal/     *)
(* service): ProcessTickets and the pure functions it calls, over the      *)
(* tickets / ai_analysis / assignments tables of the store.                *)
(***************************************************************************)
EXTENDS Integers, Sequences, FiniteSets, TLC

(* ------------------------------ bounds --------------------------------- *)
\* tickets that can be imported into the store
MaxTickets == 2
\* ProcessTickets invocations per behaviour
MaxRuns == 2
\* longest eligible list handed to PickAssignee on its own
MaxEligible == 3
\* largest current_load in such a list
MaxLoad == 2
\* longest list of business units handed to SelectOffice on its own
MaxUnits == 3
\* latest reading of the wall clock when a decision is made on its own
MaxClock == 2

(* --------------------------- string helpers ---------------------------- *)
\* strings.TrimSpace over the vocabulary of the model
TrimSpace(s) ==
  CASE s = " Change of Data " -> "Change of Data"
    [] s = " kz "             -> "kz"
    [] s = " vip "            -> "vip"
    [] OTHER                  -> s

\* strings.ToLower over the vocabulary of the model
ToLower(s) ==
  CASE s = "Change of data" -> "change of data"
    [] s = "Change of Data" -> "change of data"
    [] s = "Consultation"   -> "consultation"
    [] s = "Spam"           -> "spam"
    [] s = "Payment"        -> "payment"
    [] s = "VIP"            -> "vip"
    [] s = "RU"             -> "ru"
    [] s = "KZ"             -> "kz"
    [] s = "ENG"            -> "eng"
    [] s = "ENGLISH"        -> "english"
    [] s = "DE"             -> "de"
    [] s = "STANDARD"       -> "standard"
    [] s = "PREMIUM"        -> "premium"
    [] s = "Glav spec"      -> "glav spec"
    [] s = "Specialist"     -> "specialist"
    [] s = "ASTANA"         -> "astana"
    [] s = "ALMATY"         -> "almaty"
    [] s = "Karaganda"      -> "karaganda"
    [] s = "Shymkent"       -> "shymkent"
    [] OTHER                -> s

\* strings.ToUpper over the vocabulary of the model
ToUpper(s) ==
  CASE s = "rus"     -> "RUS"
    [] s = "kz"      -> "KZ"
    [] s = "eng"     -> "ENG"
    [] s = "english" -> "ENGLISH"
    [] s = "vip"     -> "VIP"
    [] s = "ru"      -> "RU"
    [] s = "de"      -> "DE"
    [] OTHER         -> s

\* strings.EqualFold: equality under case folding
EqualFold(a, b) == ToLower(a) = ToLower(b)

(* ------------------------------ stable hash ---------------------------- *)
\* one bit position of a XOR b, for the bytes a and b
RECURSIVE XorByte(_, _)
XorByte(a, b) ==
  IF a = 0 /\ b = 0 THEN 0
  ELSE (((a % 2) + (b % 2)) % 2) + 2 * XorByte(a \div 2, b \div 2)

\* FNV-1a 64-bit offset basis 0xcbf29ce484222325, little-endian bytes
FnvOffset == <<37, 35, 34, 132, 228, 156, 242, 203>>

\* h * 0x100000001b3 mod 2^64 on little-endian bytes:
\* h * 2^40 (a shift by five bytes) plus h * 0x1b3, carries propagated
RECURSIVE FnvMulFrom(_, _, _)
FnvMulFrom(h, k, carry) ==
  IF k > 8 THEN <<>>
  ELSE LET s == (h[k] * 435) + (IF k > 5 THEN h[k - 5] ELSE 0) + carry
       IN  <<s % 256>> \o FnvMulFrom(h, k + 1, s \div 256)

FnvMul(h) == FnvMulFrom(h, 1, 0)

RECURSIVE FnvFold(_, _, _)
FnvFold(h, bytes, k) ==
  IF k > Len(bytes) THEN h
  ELSE FnvFold(FnvMul([h EXCEPT ![1] = XorByte(h[1], bytes[k])]), bytes, k + 1)

\* FNV-1a over the bytes of s; the 64-bit sum as eight little-endian bytes
Fnv1a64(s) == FnvFold(FnvOffset, s, 1)

\* uint64 % n for n in 1..2 (the only moduli the engine uses): n divides 256
\* so the low byte decides
HashMod(h, n) == h[1] % n

(* ------------------------------- the data ------------------------------ *)
StatusAssigned   == "ASSIGNED"
StatusUnassigned == "UNASSIGNED"
StatusError      == "ERROR"

\* a nil *string / a missing row
NoManager == 0
NoRow == [status |-> "NONE"]

\* the tickets table: row i is the i-th ticket by created_at; ids "t1", "t2", ...
TicketIds == 1..MaxTickets
Ticket(i) == [ID      |-> <<116, 48 + i>>,
              Segment |-> IF i % 2 = 1 THEN "VIP" ELSE "STANDARD"]

\* utils.HashStringToUint64 on the ticket ids, each sum computed once
TicketHashes == [t \in TicketIds |-> Fnv1a64(Ticket(t).ID)]

HashStringToUint64(s) == TicketHashes[CHOOSE t \in TicketIds : Ticket(t).ID = s]

\* the managers table (ids in string order; office, role and skills as the
\* import stores them)
ManagerTable == <<
  [ID |-> 1, Office |-> "ASTANA", Role |-> "Glav spec",  Skills |-> <<"VIP", "RU", "KZ">>],
  [ID |-> 2, Office |-> "ASTANA", Role |-> "Specialist", Skills |-> <<"RU", "ENG">>],
  [ID |-> 3, Office |-> "ASTANA", Role |-> "Glav spec",  Skills |-> <<"VIP", "RU">>],
  [ID |-> 4, Office |-> "ALMATY", Role |-> "Glav spec",  Skills |-> <<"RU", "ENG">>],
  [ID |-> 5, Office |-> "ALMATY", Role |-> "Specialist", Skills |-> <<"RU", "KZ">>] >>
ManagerIds == 1..Len(ManagerTable)

\* the business_units table; Karaganda has no coordinates, Shymkent no managers
\* a nil latitude or longitude of a business unit
NilCoord == -1

\* Lat and Lon name a place: 1 Astana, 2 Almaty, 3 Shymkent
UnitTable == <<
  [Name |-> "ASTANA",    Lat |-> 1,        Lon |-> 1],
  [Name |-> "Karaganda", Lat |-> NilCoord, Lon |-> NilCoord],
  [Name |-> "ALMATY",    Lat |-> 2,        Lon |-> 2],
  [Name |-> "Shymkent",  Lat |-> 3,        Lon |-> 3] >>

\* what the Enricher may answer (before normalizeAI); Point names (Lat, Lon),
\* Confidence is in hundredths
EnricherAnswers == {
  [Type |-> "change of data",    Priority |-> 5,  Language |-> "rus",     Point |-> 1, Confidence |-> 90],
  [Type |-> "Spam",              Priority |-> 9,  Language |-> " kz ",    Point |-> 0, Confidence |-> 30],
  [Type |-> " Change of Data ",  Priority |-> 10, Language |-> "ENGLISH", Point |-> 2, Confidence |-> 70],
  [Type |-> "Payment",           Priority |-> 1,  Language |-> "eng",     Point |-> 3, Confidence |-> 80] }

(* ---------------------------- normalization ---------------------------- *)
normalizeAIType(value) ==
  LET v == ToLower(TrimSpace(value))
  IN  CASE v = "complaint"       -> "Complaint"
        [] v = "consultation"    -> "Consultation"
        [] v = "fraud"           -> "Fraud"
        [] v = "change of data"  -> "Change of data"
        [] v = "technical issue" -> "Technical issue"
        [] v = "spam"            -> "Spam"
        [] OTHER                 -> TrimSpace(value)

normalizeLanguage(value) ==
  LET v == ToUpper(TrimSpace(value))
  IN  CASE v \in {"RU", "RUS", "RUSSIAN"}  -> "RU"
        [] v \in {"KZ", "KAZ", "KAZAKH"}   -> "KZ"
        [] v \in {"EN", "ENG", "ENGLISH"}  -> "ENG"
        [] OTHER                           -> v

normalizeAI(ai) ==
  [ai EXCEPT !.Type = normalizeAIType(ai.Type), !.Language = normalizeLanguage(ai.Language)]

\* strings.Contains(lower(trim(value)), "astan" ...) over the unit names
normalizeOfficeEnum(value) ==
  LET v == ToLower(TrimSpace(value))
  IN  IF v = "" THEN ""
      ELSE IF v \in {"astana", "nur-sultan", "nursultan"} THEN "ASTANA"
      ELSE IF v \in {"almaty"} THEN "ALMATY"
      ELSE TrimSpace(value)

(* ---------------------------- office selection ------------------------- *)
\* utils.HaversineKm from the enrichment point to the place (lat, lon), in
\* metres: points 1..3 lie in Astana, Almaty and Shymkent, point 0 is (0, 0);
\* the places are those of the units, where lat and lon name the same place
HaversineKm(point, lat, lon) ==
  LET row == CASE point = 1 -> <<2593, 973789, 992845>>
               [] point = 2 -> <<969884, 5032, 604718>>
               [] point = 3 -> <<995413, 600587, 4708>>
               [] OTHER     -> <<8729231, 8946547, 8346580>>
  IN  IF lat = lon /\ lat \in 1..3 THEN row[lat] ELSE 20000000

\* faulty variant: a unit at the same distance replaces the one found before
RECURSIVE NearestFromLastOnTie(_, _, _, _, _)
NearestFromLastOnTie(point, units, i, minIdx, minDist) ==
  IF i > Len(units) THEN minIdx
  ELSE IF units[i].Lat = NilCoord \/ units[i].Lon = NilCoord
       THEN NearestFromLastOnTie(point, units, i + 1, minIdx, minDist)
  ELSE IF minIdx = -1 \/ HaversineKm(point, units[i].Lat, units[i].Lon) <= minDist
       THEN NearestFromLastOnTie(point, units, i + 1, i,
                                 HaversineKm(point, units[i].Lat, units[i].Lon))
       ELSE NearestFromLastOnTie(point, units, i + 1, minIdx, minDist)

\* the loop of SelectOffice: the index of the nearest unit with coordinates,
\* the earlier one on a tie; -1 when none has coordinates
RECURSIVE NearestFrom(_, _, _, _, _)
NearestFrom(point, units, i, minIdx, minDist) ==
  IF i > Len(units) THEN minIdx
  ELSE IF units[i].Lat = NilCoord \/ units[i].Lon = NilCoord
       THEN NearestFrom(point, units, i + 1, minIdx, minDist)
  ELSE LET d == HaversineKm(point, units[i].Lat, units[i].Lon)
       IN  IF minIdx = -1 \/ d < minDist
           THEN NearestFrom(point, units, i + 1, i, d)
           ELSE NearestFrom(point, units, i + 1, minIdx, minDist)

ConfidenceThreshold == 70

\* faulty variant: the fallback split is taken from the length of the list
OfficeForByList(ticketID, units, minIdx) ==
  IF minIdx >= 1
  THEN [office |-> normalizeOfficeEnum(units[minIdx].Name), usedGeo |-> TRUE]
  ELSE IF Len(units) % 2 = 0
       THEN [office |-> "ASTANA", usedGeo |-> FALSE]
       ELSE [office |-> "ALMATY", usedGeo |-> FALSE]

\* the two returns of SelectOffice, given the loop's result
OfficeFor(ticketID, units, minIdx) ==
  IF minIdx >= 1
  THEN [office |-> normalizeOfficeEnum(units[minIdx].Name), usedGeo |-> TRUE]
  ELSE IF HashMod(HashStringToUint64(ticketID), 2) = 0
       THEN [office |-> "ASTANA", usedGeo |-> FALSE]
       ELSE [office |-> "ALMATY", usedGeo |-> FALSE]

SelectOffice(ticketID, ai, units) ==
  OfficeFor(ticketID, units,
            IF ai.Confidence >= ConfidenceThreshold /\ Len(units) > 0
            THEN NearestFrom(ai.Point, units, 1, -1, 0)
            ELSE -1)

(* ------------------------------ eligibility ---------------------------- *)
SeniorRole == "Glav spec"

hasSkill(skills, target) ==
  \E k \in 1..Len(skills) : EqualFold(TrimSpace(skills[k]), target)

\* filterManagers: keep[k] is the verdict of the keep function on managers[k]
RECURSIVE filterManagersFrom(_, _, _)
filterManagersFrom(managers, keep, k) ==
  IF k > Len(managers) THEN <<>>
  ELSE (IF keep[k] THEN <<managers[k]>> ELSE <<>>)
       \o filterManagersFrom(managers, keep, k + 1)

filterManagers(managers, keep) == filterManagersFrom(managers, keep, 1)

IsLanguageRule(lang) == lang = "KZ" \/ lang = "ENG" \/ lang = "RU"

VipPriority == 9

\* faulty variant: the VIP rule keeps everybody
KeepAnyone(m) == TRUE

KeepVIP(m) == hasSkill(m.Skills, "VIP")
KeepRole(m) == EqualFold(TrimSpace(m.Role), SeniorRole)

\* faulty variant: the language rule removes nobody
languageRuleSkipped(afterRole, needsLang) == afterRole

\* the three narrowing stages
vipRule(managers, needsVIP) ==
  IF needsVIP
  THEN filterManagers(managers, [k \in 1..Len(managers) |-> KeepVIP(managers[k])])
  ELSE managers

roleRule(afterVIP, needsRole) ==
  IF needsRole
  THEN filterManagers(afterVIP, [k \in 1..Len(afterVIP) |-> KeepRole(afterVIP[k])])
  ELSE afterVIP

languageRule(afterRole, needsLang) ==
  IF IsLanguageRule(needsLang)
  THEN filterManagers(afterRole,
                      [k \in 1..Len(afterRole) |-> hasSkill(afterRole[k].Skills, needsLang)])
  ELSE afterRole

Stage(name, candidates) == [Name |-> name, Candidates |-> candidates]

\* faulty variant: no early return; all four stages are recorded and an empty
\* result is always reported with the generic code
EligibilityResultLate(managers, afterVIP, afterRole, afterLang, needsVIP, needsRole, needsLang) ==
  [Eligible |-> afterLang,
   ReasonCode |-> IF Len(afterLang) = 0 THEN "NO_ELIGIBLE_MANAGERS" ELSE "",
   Stages |-> <<Stage("office_candidates", managers), Stage("vip_rule", afterVIP),
                Stage("role_rule", afterRole), Stage("language_rule", afterLang)>>,
   NeedsVIP |-> needsVIP, NeedsRole |-> needsRole, NeedsLang |-> needsLang]

\* the result FilterEligibleManagers builds from the stage outputs: the stages
\* recorded up to the first empty one, its reason code, or the eligible list
EligibilityResult(managers, afterVIP, afterRole, afterLang, needsVIP, needsRole, needsLang) ==
  LET base == [Eligible |-> <<>>, ReasonCode |-> "", Stages |-> <<>>,
               NeedsVIP |-> needsVIP, NeedsRole |-> needsRole, NeedsLang |-> needsLang]
  IN  IF Len(managers) = 0
        THEN [base EXCEPT !.ReasonCode = "NO_ELIGIBLE_MANAGERS",
                          !.Stages = <<Stage("office_candidates", managers)>>]
      ELSE IF needsVIP /\ Len(afterVIP) = 0
        THEN [base EXCEPT !.ReasonCode = "VIP_REQUIRED_NO_MATCH",
                          !.Stages = <<Stage("office_candidates", managers),
                                       Stage("vip_rule", afterVIP)>>]
      ELSE IF needsRole /\ Len(afterRole) = 0
        THEN [base EXCEPT !.ReasonCode = "ROLE_MISMATCH",
                          !.Stages = <<Stage("office_candidates", managers),
                                       Stage("vip_rule", afterVIP),
                                       Stage("role_rule", afterRole)>>]
      ELSE IF IsLanguageRule(needsLang) /\ Len(afterLang) = 0
        THEN [base EXCEPT !.ReasonCode = "LANGUAGE_MISMATCH",
                          !.Stages = <<Stage("office_candidates", managers),
                                       Stage("vip_rule", afterVIP),
                                       Stage("role_rule", afterRole),
                                       Stage("language_rule", afterLang)>>]
      ELSE [base EXCEPT !.Eligible = afterLang,
                        !.Stages = <<Stage("office_candidates", managers),
                                     Stage("vip_rule", afterVIP),
                                     Stage("role_rule", afterRole),
                                     Stage("language_rule", afterLang)>>]

FilterFromRole(managers, afterVIP, afterRole, needsVIP, needsRole, needsLang) ==
  EligibilityResult(managers, afterVIP, afterRole, languageRule(afterRole, needsLang),
                    needsVIP, needsRole, needsLang)

\* faulty variant: the role rule starts again from the whole roster
FilterFromVIPUnnested(managers, afterVIP, needsVIP, needsRole, needsLang) ==
  FilterFromRole(managers, afterVIP, roleRule(managers, needsRole), needsVIP, needsRole, needsLang)

FilterFromVIP(managers, afterVIP, needsVIP, needsRole, needsLang) ==
  FilterFromRole(managers, afterVIP, roleRule(afterVIP, needsRole), needsVIP, needsRole, needsLang)

FilterStages(managers, needsVIP, needsRole, needsLang) ==
  FilterFromVIP(managers, vipRule(managers, needsVIP), needsVIP, needsRole, needsLang)

FilterEligibleManagers(managers, ticket, ai) ==
  FilterStages(managers,
               EqualFold(TrimSpace(ticket.Segment), "VIP") \/ ai.Priority >= VipPriority,
               EqualFold(TrimSpace(ai.Type), "Change of data"),
               ToUpper(TrimSpace(ai.Language)))

\* the outcome of the global pass, given both filter results
CrossOfficeResult(local, global) ==
  IF Len(global.Eligible) > 0
  THEN [Assigned |-> TRUE, CrossOffice |-> TRUE, Local |-> local, Global |-> global,
        ReasonCode |-> "ASSIGNED_CROSS_OFFICE"]
  ELSE [Assigned |-> FALSE, CrossOffice |-> FALSE, Local |-> local, Global |-> global,
        ReasonCode |-> "NO_ELIGIBLE_MANAGERS_GLOBAL"]

\* the global pass: the same filter over the managers of all offices
EvaluateCrossOffice(localManagers, globalManagers, ticket, ai) ==
  CrossOfficeResult(FilterEligibleManagers(localManagers, ticket, ai),
                    FilterEligibleManagers(globalManagers, ticket, ai))

(* ------------------------------ assignment ----------------------------- *)
\* faulty variant: the sort looks at the ids alone
LoadLessById(a, b) == a.ID < b.ID

\* the less function of PickAssignee's sort.Slice
LoadLess(a, b) ==
  IF a.CurrentLoad = b.CurrentLoad THEN a.ID < b.ID ELSE a.CurrentLoad < b.CurrentLoad

\* faulty variant: the list is left in the order it came in
SortByLoadUnsorted(ms) == ms

\* sort.Slice under LoadLess (a total order: manager ids are unique)
RECURSIVE SortByLoad(_)
SortByLoad(ms) ==
  IF Len(ms) = 0 THEN <<>>
  ELSE LET k == CHOOSE i \in 1..Len(ms) : \A j \in 1..Len(ms) : j = i \/ LoadLess(ms[i], ms[j])
           rest == SubSeq(ms, 1, k - 1) \o SubSeq(ms, k + 1, Len(ms))
       IN  <<ms[k]>> \o SortByLoad(rest)

\* faulty variant: the sorted list is never cut to two
Top2Whole(sorted) == sorted

\* the considered set: the whole sorted list, or its first two
Top2(sorted) == IF Len(sorted) <= 2 THEN sorted ELSE SubSeq(sorted, 1, 2)

PickAt(top2, h) == [assignee |-> top2[HashMod(h, Len(top2)) + 1], top2 |-> top2]

PickAssignee(ticketID, eligible) ==
  PickAt(Top2(SortByLoad(eligible)), HashStringToUint64(ticketID))

(* ---------------------------- reasoning record -------------------------- *)
\* the zero EligibilityResult{} the local branch passes for the global pass
EmptyEligibility ==
  [Eligible |-> <<>>, ReasonCode |-> "", Stages |-> <<>>,
   NeedsVIP |-> FALSE, NeedsRole |-> FALSE, NeedsLang |-> ""]

\* faulty variant: a stage that was not recorded counts as the first one
stageCountOrFirst(elig, name) ==
  IF \E k \in 1..Len(elig.Stages) : elig.Stages[k].Name = name
  THEN Len(elig.Stages[CHOOSE k \in 1..Len(elig.Stages) :
                         /\ elig.Stages[k].Name = name
                         /\ \A j \in 1..(k - 1) : elig.Stages[j].Name # name].Candidates)
  ELSE IF Len(elig.Stages) > 0 THEN Len(elig.Stages[1].Candidates) ELSE 0

\* the size of the first stage of that name, 0 when the stage was not recorded
stageCount(elig, name) ==
  IF \E k \in 1..Len(elig.Stages) : elig.Stages[k].Name = name
  THEN Len(elig.Stages[CHOOSE k \in 1..Len(elig.Stages) :
                         /\ elig.Stages[k].Name = name
                         /\ \A j \in 1..(k - 1) : elig.Stages[j].Name # name].Candidates)
  ELSE 0

\* one attempt of the reasoning record; the keys office, fallback_used and
\* failed_reason_code are absent from the map exactly when they are "",
\* FALSE and "" here
buildAttempt(scope, office, elig, failedReason, fallbackUsed) ==
  [scope |-> scope,
   counts |-> [in_office      |-> stageCount(elig, "office_candidates"),
               after_vip      |-> stageCount(elig, "vip_rule"),
               after_role     |-> stageCount(elig, "role_rule"),
               after_language |-> stageCount(elig, "language_rule")],
   office |-> office, fallback_used |-> fallbackUsed, failed_reason_code |-> failedReason]

\* faulty variant: the stage code of the pass is replaced by the generic one
attemptFailedGeneric(elig) ==
  IF Len(elig.Eligible) = 0 THEN "NO_ELIGIBLE_MANAGERS" ELSE ""

\* localFailed / globalFailed: the reason code of a pass that kept nobody
attemptFailed(elig) ==
  IF Len(elig.Eligible) = 0
  THEN (IF elig.ReasonCode = "" THEN "NO_ELIGIBLE_MANAGERS" ELSE elig.ReasonCode)
  ELSE ""

\* no picked payload: picked was nil
NoPicked == [manager_id |-> NoManager, method |-> "", hash_mod |-> 0]

\* the reasoning map written with an outcome; picked is nil when its ID is
\* NoManager
buildCrossOfficeReasoning(office, usedGeo, ai, local, global, crossOffice, top2, picked, hashMod) ==
  [office_selected |-> office,
   office_rule |-> IF usedGeo THEN "nearest_by_geo" ELSE "fallback_50_50",
   attempts |-> <<buildAttempt("LOCAL", office, local, attemptFailed(local), FALSE)>>
                \o (IF crossOffice
                    THEN <<buildAttempt("GLOBAL", "", global, attemptFailed(global), TRUE)>>
                    ELSE <<>>),
   top2 |-> [k \in 1..Len(top2) |-> [manager_id |-> top2[k].ID, load |-> top2[k].CurrentLoad]],
   picked |-> IF picked.ID = NoManager THEN NoPicked
              ELSE [manager_id |-> picked.ID, method |-> "deterministic_round_robin",
                    hash_mod |-> hashMod],
   fallback_cross_office |-> crossOffice,
   geo |-> [point |-> ai.Point, confidence |-> ai.Confidence]]

(* ------------------------------- the store ----------------------------- *)
VARIABLES
  tickets,            \* tickets table: the ids imported so far
  assignments,        \* assignments table: ticket id -> row, or NoRow
  ai_analysis,        \* ai_analysis table: ticket id -> row, or NoRow
  run,                \* per ProcessTickets invocation: its locals and its trace
  started,            \* ProcessTickets invocations so far
  importedSincePull,  \* a ticket was imported after the latest pull
  call                \* one call of a pure function on its own: arguments and result

vars == <<tickets, assignments, ai_analysis, run, started, importedSincePull, call>>

RunIds == {1, 2}

\* the AIAnalysis writeAssignmentError stores
EmptyAI == [Type |-> "", Priority |-> 0, Language |-> "", Point |-> 0, Confidence |-> 0]

\* faulty variant: only the rows in progress are counted
ActiveLoadInProgressOnly(asg, m) ==
  Cardinality({t \in TicketIds : /\ asg[t] # NoRow
                                 /\ asg[t].manager = m
                                 /\ asg[t].status \in {"IN_PROGRESS"}})

\* COUNT(*) of the assignments naming manager m with an active status
ActiveLoad(asg, m) ==
  Cardinality({t \in TicketIds : /\ asg[t] # NoRow
                                 /\ asg[t].manager = m
                                 /\ asg[t].status \in {"ASSIGNED", "IN_PROGRESS"}})

\* faulty variant: the LEFT JOIN without its WHERE a.ticket_id IS NULL
RECURSIVE PullEvery(_, _, _)
PullEvery(tks, asg, t) ==
  IF t > MaxTickets THEN <<>>
  ELSE (IF t \in tks THEN <<t>> ELSE <<>>) \o PullEvery(tks, asg, t + 1)

\* Store.GetTicketsForProcessing: the tickets with no assignments row, by created_at
RECURSIVE PullFrom(_, _, _)
PullFrom(tks, asg, t) ==
  IF t > MaxTickets THEN <<>>
  ELSE (IF t \in tks /\ asg[t] = NoRow THEN <<t>> ELSE <<>>) \o PullFrom(tks, asg, t + 1)

\* faulty variant: the first ticket is returned whether or not it has an outcome
GetTicketsAgain(tks, asg) ==
  PullFrom(tks, [t \in TicketIds |-> IF t = 1 THEN NoRow ELSE asg[t]], 1)

GetTicketsForProcessing(tks, asg) == PullFrom(tks, asg, 1)

\* Store.ListManagers(ctx, "", ""): every manager with its derived load,
\* ORDER BY current_load ASC, id ASC
ListManagers(asg) ==
  SortByLoad([k \in 1..Len(ManagerTable) |->
                [ID |-> ManagerTable[k].ID, Office |-> ManagerTable[k].Office,
                 Role |-> ManagerTable[k].Role, Skills |-> ManagerTable[k].Skills,
                 CurrentLoad |-> ActiveLoad(asg, ManagerTable[k].ID)]])

ListBusinessUnits == UnitTable

\* the faults a write transaction can meet: none, UpsertAssignment returns an
\* error after UpsertAIAnalysis ran, or Commit returns an error
WriteFaults == {"none", "assignment", "commit"}

\* the two statements of the transaction, on the tables as the transaction
\* sees them (INSERT ... ON CONFLICT (ticket_id) DO UPDATE)
UpsertAIAnalysis(tx, t, ai) == [tx EXCEPT !.ai_analysis[t] = ai]

UpsertAssignment(tx, t, row) == [tx EXCEPT !.assignments[t] = row]

\* faulty variant: what the statements did stays when the transaction fails
WithTxNoRollback(db, tx, committed) == tx

\* Store.WithTx: db is the pair of tables before, tx the pair as the
\* statements that ran left it; commit keeps tx, the deferred Rollback db
WithTx(db, tx, committed) == IF committed THEN tx ELSE db

\* writeAssignment: UpsertAIAnalysis then UpsertAssignment inside WithTx; the
\* result holds the tables afterwards, whether the transaction committed,
\* and what was attempted
writeAssignment(db, t, aiResult, managerID, office, status, reasonCode, fault) ==
  [db  |-> WithTx(db,
                  IF fault = "assignment"
                  THEN UpsertAIAnalysis(db, t, aiResult)
                  ELSE UpsertAssignment(UpsertAIAnalysis(db, t, aiResult), t,
                                        [status |-> status, manager |-> managerID,
                                         office |-> office, reasonCode |-> reasonCode]),
                  fault = "none"),
   ok  |-> fault = "none",
   rec |-> [status |-> status, reasonCode |-> reasonCode, manager |-> managerID,
            office |-> office, ok |-> fault = "none",
            existed |-> db.assignments[t] # NoRow]]

\* faulty variant: the failure is stored with status UNASSIGNED
writeAssignmentErrorUnassigned(db, t, reasonCode, fault) ==
  writeAssignment(db, t, EmptyAI, NoManager, "UNKNOWN", StatusUnassigned, reasonCode, fault)

\* writeAssignmentError: an ERROR outcome with an empty analysis, no manager
\* and office UNKNOWN
writeAssignmentError(db, t, reasonCode, fault) ==
  writeAssignment(db, t, EmptyAI, NoManager, "UNKNOWN", StatusError, reasonCode, fault)

(* ------------------------------ ProcessTickets ------------------------- *)
\* the keys topUnassignedReasons can get: the stage codes of the global pass
\* and the code of the outcome; a key with count 0 is absent from the map
UnassignedReasons ==
  {"NO_ELIGIBLE_MANAGERS", "VIP_REQUIRED_NO_MATCH", "ROLE_MISMATCH", "LANGUAGE_MISMATCH",
   "NO_ELIGIBLE_MANAGERS_GLOBAL"}

ZeroCounts == [assigned |-> 0, assignedLocal |-> 0, assignedCrossOffice |-> 0,
               unassigned |-> 0, unassignedGlobal |-> 0, aiErrors |-> 0,
               ticketsProcessed |-> 0,
               topUnassignedReasons |-> [c \in UnassignedReasons |-> 0]]

IdleRun == [pc |-> "idle", tickets |-> <<>>,
            loadMap |-> [m \in ManagerIds |-> 0], startLoad |-> [m \in ManagerIds |-> 0],
            i |-> 1, canceled |-> FALSE, err |-> FALSE, setupError |-> "",
            counts |-> ZeroCounts,
            calls |-> <<>>, log |-> <<>>,
            afterQuiet |-> FALSE, prevUnwritten |-> {}, prevVisited |-> 0,
            overlapped |-> FALSE]

\* faulty variant: every office's roster is the whole manager list
managerByOfficeAll(allManagers, office) == allManagers

\* managerByOffice[office] as ProcessTickets builds it from allManagers
managerByOffice(allManagers, office) ==
  filterManagers(allManagers, [k \in 1..Len(allManagers) |-> allManagers[k].Office = office])

\* faulty variant: the roster keeps the loads read at the start of the run
applyLoadsStale(managers, loadMap) == managers

applyLoads(managers, loadMap) ==
  [k \in 1..Len(managers) |->
     [managers[k] EXCEPT !.CurrentLoad =
        IF managers[k].ID \in DOMAIN loadMap THEN loadMap[managers[k].ID] ELSE 0]]

\* the CurrentLoad of every manager of a roster, by manager id
LoadsOf(roster) ==
  [m \in {roster[k].ID : k \in 1..Len(roster)} |->
     roster[CHOOSE k \in 1..Len(roster) : roster[k].ID = m].CurrentLoad]

\* the local allManagers of the run: ListManagers as read at its start
AllManagers(st) ==
  SortByLoad([k \in 1..Len(ManagerTable) |->
                [ID |-> ManagerTable[k].ID, Office |-> ManagerTable[k].Office,
                 Role |-> ManagerTable[k].Role, Skills |-> ManagerTable[k].Skills,
                 CurrentLoad |-> st.startLoad[ManagerTable[k].ID]]])

NoPick == [assignee |-> [ID |-> NoManager, Office |-> ""], top2 |-> <<>>]

\* what the iteration decided before it writes: the branch taken, the office
\* selected, the loads the filter saw, the pick, the reason code and the
\* results of the local and the global pass
Decision(branch, sel, seen, pick, reasonCode, local, global) ==
  [branch |-> branch, sel |-> sel, seen |-> seen, pick |-> pick, reasonCode |-> reasonCode,
   local |-> local, global |-> global]

\* the branch on the result of the global pass
CrossBranch(t, sel, seen, cross) ==
  IF cross.Assigned
  THEN Decision("CROSS", sel, seen, PickAssignee(Ticket(t).ID, cross.Global.Eligible),
                cross.ReasonCode, cross.Local, cross.Global)
  ELSE Decision("UNASSIGNED", sel, seen, NoPick, cross.ReasonCode, cross.Local, cross.Global)

Escalate(t, ai, sel, managers, globalManagers) ==
  CrossBranch(t, sel, LoadsOf(globalManagers),
              EvaluateCrossOffice(managers, globalManagers, Ticket(t), ai))

\* faulty variant: the global pass is evaluated whatever the local pass kept
LocalBranchAlwaysGlobal(st, t, ai, sel, managers, elig) ==
  Escalate(t, ai, sel, managers, applyLoads(AllManagers(st), st.loadMap))

\* the branch on the result of the local pass
LocalBranch(st, t, ai, sel, managers, elig) ==
  IF Len(elig.Eligible) = 0
  THEN Escalate(t, ai, sel, managers, applyLoads(AllManagers(st), st.loadMap))
  ELSE Decision("LOCAL", sel, LoadsOf(managers), PickAssignee(Ticket(t).ID, elig.Eligible),
                "ASSIGNED_LOCAL", elig, EmptyEligibility)

LocalPass(st, t, ai, sel, managers) ==
  LocalBranch(st, t, ai, sel, managers, FilterEligibleManagers(managers, Ticket(t), ai))

\* faulty variant: the local pass runs over the managers of every office
RoutedWholeRoster(st, t, ai, sel) ==
  LocalPass(st, t, ai, sel, applyLoads(AllManagers(st), st.loadMap))

\* the local pass runs over the roster of the selected office
Routed(st, t, ai, sel) ==
  LocalPass(st, t, ai, sel,
            applyLoads(managerByOffice(AllManagers(st), sel.office), st.loadMap))

\* the iteration from normalizeAI's result to the chosen branch
Decide(st, t, ai) ==
  Routed(st, t, ai, SelectOffice(Ticket(t).ID, ai, ListBusinessUnits))

\* faulty variant: the loop index is not advanced
NextTicketStuck(st, entry) ==
  [st EXCEPT !.log = Append(@, entry), !.pc = "loop"]

\* one iteration done: the trace entry is kept and the loop moves on
NextTicket(st, entry) ==
  [st EXCEPT !.log = Append(@, entry), !.i = @ + 1, !.pc = "loop"]

\* the ids of a list of managers, in its order
IdsOf(managers) == [k \in 1..Len(managers) |-> managers[k].ID]

\* faulty variant: the record is built after the assignee's load was raised
ReasoningOfAfterIncrement(t, ai, dec) ==
  buildCrossOfficeReasoning(dec.sel.office, dec.sel.usedGeo, ai, dec.local, dec.global,
                            dec.branch # "LOCAL",
                            [k \in 1..Len(dec.pick.top2) |->
                               IF dec.pick.top2[k].ID = dec.pick.assignee.ID
                               THEN [dec.pick.top2[k] EXCEPT !.CurrentLoad = @ + 1]
                               ELSE dec.pick.top2[k]],
                            dec.pick.assignee,
                            IF dec.pick.top2 = <<>> THEN 0
                            ELSE HashMod(HashStringToUint64(Ticket(t).ID), Len(dec.pick.top2)))

\* the reasoning the branch builds for its outcome write
ReasoningOf(t, ai, dec) ==
  buildCrossOfficeReasoning(dec.sel.office, dec.sel.usedGeo, ai, dec.local, dec.global,
                            dec.branch # "LOCAL", dec.pick.top2, dec.pick.assignee,
                            IF dec.pick.top2 = <<>> THEN 0
                            ELSE HashMod(HashStringToUint64(Ticket(t).ID), Len(dec.pick.top2)))

\* the trace entry of one iteration: the decision, the ids the local and the
\* global pass kept, the global pass's own reason code, the reasoning record
\* and the writes attempted
Entry(t, ai, dec, writes) ==
  [t |-> t, branch |-> dec.branch, ai |-> ai, office |-> dec.sel.office,
   usedGeo |-> dec.sel.usedGeo, manager |-> dec.pick.assignee.ID, seen |-> dec.seen,
   localEligible |-> IdsOf(dec.local.Eligible),
   globalEligible |-> IdsOf(dec.global.Eligible),
   globalReason |-> dec.global.ReasonCode,
   reasoning |-> IF dec.branch = "AI_ERROR" THEN << >> ELSE ReasoningOf(t, ai, dec),
   writes |-> writes]

\* the details map writeAssignmentError stores in the reasoning column
ErrorDetails == [error |-> "err.Error()"]

\* the reasoning column of the k-th outcome write of an iteration: the record
\* the branch built, or the error details with an ERROR outcome
ReasoningWritten(entry, k) ==
  IF entry.writes[k].status = StatusError THEN ErrorDetails ELSE entry.reasoning

AIErrorDecision ==
  Decision("AI_ERROR", [office |-> "UNKNOWN", usedGeo |-> FALSE], << >>, NoPick, "AI_ERROR",
           EmptyEligibility, EmptyEligibility)

\* faulty variant: the failure is written but not counted
AIErrorUncounted(st, t, w) ==
  [st |-> NextTicket(st, Entry(t, EmptyAI, AIErrorDecision, <<w.rec>>)), db |-> w.db]

\* the Enricher failed: aiErrors++, the AI_ERROR outcome, continue
AIErrorWritten(st, t, w) ==
  [st |-> NextTicket([st EXCEPT !.counts.aiErrors = @ + 1],
                     Entry(t, EmptyAI, AIErrorDecision, <<w.rec>>)),
   db |-> w.db]

AIErrorBranch(st, db, t, f1) ==
  AIErrorWritten(st, t, writeAssignmentError(db, t, "AI_ERROR", f1))

\* the assignment was written: the counters and the in-run load
AssignCommitted(st, t, ai, dec, w1) ==
  [st |-> NextTicket(
            [st EXCEPT !.counts.assigned = @ + 1,
                       !.counts.assignedLocal = IF dec.branch = "LOCAL" THEN @ + 1 ELSE @,
                       !.counts.assignedCrossOffice = IF dec.branch = "CROSS" THEN @ + 1 ELSE @,
                       !.loadMap[dec.pick.assignee.ID] = @ + 1],
            Entry(t, ai, dec, <<w1.rec>>)),
   db |-> w1.db]

\* faulty variant: the DB_ERROR outcome is never stored
AssignFailedNoFallback(st, t, ai, dec, w1, w2) ==
  [st |-> NextTicket(st, Entry(t, ai, dec, <<w1.rec, w2.rec>>)), db |-> w1.db]

\* the assignment write failed: the DB_ERROR outcome, continue
AssignFailed(st, t, ai, dec, w1, w2) ==
  [st |-> NextTicket(st, Entry(t, ai, dec, <<w1.rec, w2.rec>>)), db |-> w2.db]

AssignWritten(st, t, ai, dec, w1, f2) ==
  IF w1.ok
  THEN AssignCommitted(st, t, ai, dec, w1)
  ELSE AssignFailed(st, t, ai, dec, w1, writeAssignmentError(w1.db, t, "DB_ERROR", f2))

\* faulty variant: the selected office is written whoever was picked
AssignedOfficeSelected(dec) == dec.sel.office

\* the office written with an assignment
AssignedOffice(dec) ==
  IF dec.branch = "CROSS" /\ dec.pick.assignee.Office # ""
  THEN dec.pick.assignee.Office
  ELSE dec.sel.office

\* an assignment, local or cross-office: the write, the DB_ERROR fallback, the
\* counters and the in-run load
AssignBranch(st, db, t, ai, dec, f1, f2) ==
  AssignWritten(st, t, ai, dec,
                writeAssignment(db, t, ai, dec.pick.assignee.ID, AssignedOffice(dec),
                                StatusAssigned, dec.reasonCode, f1),
                f2)

\* the key of the histogram: the stage code of the global pass, or the
\* outcome's code when the pass left none
unassignedReason(dec) ==
  IF dec.global.ReasonCode = "" THEN dec.reasonCode ELSE dec.global.ReasonCode

\* nobody is eligible in any office: the counters, and the UNASSIGNED write
\* whose error is dropped
UnassignedWritten(st, t, ai, dec, w1) ==
  [st |-> NextTicket([st EXCEPT !.counts.unassigned = @ + 1,
                                !.counts.unassignedGlobal = @ + 1,
                                !.counts.topUnassignedReasons[unassignedReason(dec)] = @ + 1],
                     Entry(t, ai, dec, <<w1.rec>>)),
   db |-> w1.db]

UnassignedBranch(st, db, t, ai, dec, f1) ==
  UnassignedWritten(st, t, ai, dec,
                    writeAssignment(db, t, ai, NoManager, dec.sel.office, StatusUnassigned,
                                    dec.reasonCode, f1))

\* the rest of the iteration once the branch is chosen
Commit(st, db, t, ai, dec, f1, f2) ==
  IF dec.branch = "UNASSIGNED"
  THEN UnassignedBranch(st, db, t, ai, dec, f1)
  ELSE AssignBranch(st, db, t, ai, dec, f1, f2)

(* -------------------------------- actions ------------------------------ *)
\* no pure function is called on its own
NoCall == [fn |-> "none"]

Init ==
  /\ tickets = {}
  /\ assignments = [t \in TicketIds |-> NoRow]
  /\ ai_analysis = [t \in TicketIds |-> NoRow]
  /\ run = [r \in RunIds |-> IdleRun]
  /\ started = 0
  /\ importedSincePull = FALSE
  /\ call = NoCall

Active(r) == run[r].pc \in {"loop", "enriching"}

\* the tickets a run visited without committing any outcome for them
Unwritten(st) ==
  {st.log[k].t : k \in {j \in 1..Len(st.log) :
                          \A w \in 1..Len(st.log[j].writes) : ~st.log[j].writes[w].ok}}

\* the import endpoint stores one more ticket (the next by created_at)
ImportTicket ==
  /\ \E t \in TicketIds \ tickets :
       /\ \A u \in TicketIds \ tickets : t <= u
       /\ tickets' = tickets \cup {t}
  /\ importedSincePull' = TRUE
  /\ UNCHANGED <<call, assignments, ai_analysis, run, started>>

\* the reads at the start of a run that can return an error
SetupFaults == {"none", "tickets", "units", "managers"}

\* faulty variant: the error of a failed read is swallowed
FailedRunSwallowed(fault) ==
  [IdleRun EXCEPT !.pc = "done", !.setupError = fault]

\* return RunSummary{}, err: the run is over before its loop
FailedRun(fault) ==
  [IdleRun EXCEPT !.pc = "failed", !.err = TRUE, !.setupError = fault]

\* ProcessTickets up to the loop: the three reads and the load map
StartRun(r) ==
  /\ ~Active(r)
  /\ started < MaxRuns
  /\ started' = started + 1
  /\ \E fault \in SetupFaults :
       LET pulled == GetTicketsForProcessing(tickets, assignments)
           all    == ListManagers(assignments)
           loads  == [m \in ManagerIds |-> LoadsOf(all)[m]]
           others == \E q \in RunIds \ {r} : Active(q)
       IN  /\ run' = [q \in RunIds |->
                        IF q = r
                        THEN IF fault # "none"
                             THEN FailedRun(fault)
                             ELSE [IdleRun EXCEPT
                                     !.pc = "loop", !.tickets = pulled,
                                     !.loadMap = loads, !.startLoad = loads,
                                     !.afterQuiet = (run[r].pc = "done" /\ ~importedSincePull /\ ~others
                                                     /\ ~run[r].overlapped),
                                     !.prevUnwritten = Unwritten(run[r]),
                                     !.prevVisited = Len(run[r].log),
                                     !.overlapped = others]
                        ELSE IF Active(q) /\ fault = "none"
                             THEN [run[q] EXCEPT !.overlapped = TRUE]
                             ELSE run[q]]
           /\ importedSincePull' = (importedSincePull /\ fault # "none")
  /\ UNCHANGED <<call, tickets, assignments, ai_analysis>>

\* the loop reaches its next ticket and calls s.AI.AnalyzeTicket
CallEnricher(r) ==
  /\ run[r].pc = "loop"
  /\ run[r].i <= Len(run[r].tickets)
  /\ run' = [run EXCEPT ![r].pc = "enriching",
                        ![r].calls = Append(@, [t |-> run[r].tickets[run[r].i],
                                                canceled |-> run[r].canceled])]
  /\ UNCHANGED <<call, tickets, assignments, ai_analysis, started, importedSincePull>>

\* the tables as one value
Db == [assignments |-> assignments, ai_analysis |-> ai_analysis]

\* the writes a canceled context lets through: none
FaultsFor(r) == IF run[r].canceled THEN WriteFaults \ {"none"} ELSE WriteFaults

\* the Enricher's answer arrives and the rest of the iteration runs
ProcessTicket(r) ==
  /\ run[r].pc = "enriching"
  /\ \E out \in
         {AIErrorBranch(run[r], Db, run[r].tickets[run[r].i], f1) : f1 \in FaultsFor(r)}
         \cup UNION {
                UNION {
                  UNION {
                    {Commit(run[r], Db, run[r].tickets[run[r].i], ai, dec, f1, f2) :
                       f2 \in IF f1 = "none" THEN {"none"} ELSE FaultsFor(r)} :
                    f1 \in FaultsFor(r)} :
                  dec \in {Decide(run[r], run[r].tickets[run[r].i], ai)}} :
                ai \in {normalizeAI(raw) : raw \in EnricherAnswers}} :
         /\ run' = [run EXCEPT ![r] = out.st]
         /\ assignments' = out.db.assignments
         /\ ai_analysis' = out.db.ai_analysis
  /\ UNCHANGED <<call, tickets, started, importedSincePull>>

\* after the loop: the summary is built and returned with a nil error
FinishRun(r) ==
  /\ run[r].pc = "loop"
  /\ run[r].i > Len(run[r].tickets)
  /\ run' = [run EXCEPT ![r].pc = "done", ![r].err = FALSE,
                        ![r].counts.ticketsProcessed = Len(run[r].tickets)]
  /\ UNCHANGED <<call, tickets, assignments, ai_analysis, started, importedSincePull>>

\* the request context of the run is canceled while an Enricher call is in flight
Cancel(r) ==
  /\ run[r].pc = "enriching"
  /\ ~run[r].canceled
  /\ run' = [run EXCEPT ![r].canceled = TRUE]
  /\ UNCHANGED <<call, tickets, assignments, ai_analysis, started, importedSincePull>>

\* one ProcessTickets at a time
SeqRunIds == {1}

Next ==
  \/ ImportTicket
  \/ \E r \in SeqRunIds : StartRun(r)
  \/ \E r \in SeqRunIds : CallEnricher(r)
  \/ \E r \in SeqRunIds : ProcessTicket(r)
  \/ \E r \in SeqRunIds : FinishRun(r)
  \/ \E r \in SeqRunIds : Cancel(r)

Spec == Init /\ [][Next]_vars

\* overlapping ProcessTickets: two requests served at once, neither canceled
NextConc ==
  \/ ImportTicket
  \/ \E r \in RunIds : StartRun(r)
  \/ \E r \in RunIds : CallEnricher(r)
  \/ \E r \in RunIds : ProcessTicket(r)
  \/ \E r \in RunIds : FinishRun(r)

SpecConc == Init /\ [][NextConc]_vars

\* the goroutine of a started run keeps stepping, and the call in flight
\* always returns: the HTTP client of the Enricher has a timeout and the
\* store calls that follow return
FairSpec ==
  /\ Init
  /\ [][Next]_vars
  /\ \A r \in SeqRunIds :
       /\ WF_vars(CallEnricher(r))
       /\ WF_vars(FinishRun(r))
       /\ []<>(run[r].pc # "enriching")

(* ------------------------ pure functions on their own ------------------ *)
\* the rows of the managers table named by ids, with the given loads
Roster(ids, loads) ==
  [k \in 1..Len(ids) |->
     [ID |-> ManagerTable[ids[k]].ID, Office |-> ManagerTable[ids[k]].Office,
      Role |-> ManagerTable[ids[k]].Role, Skills |-> ManagerTable[ids[k]].Skills,
      CurrentLoad |-> loads[k]]]

\* the argument lists of a call on its own: the ticket ids of the table and
\* every non-empty list of up to MaxEligible distinct managers, in every
\* order, with every load up to MaxLoad
InitCalls ==
  /\ tickets = {}
  /\ assignments = [t \in TicketIds |-> NoRow]
  /\ ai_analysis = [t \in TicketIds |-> NoRow]
  /\ run = [r \in RunIds |-> IdleRun]
  /\ started = 0
  /\ importedSincePull = FALSE
  /\ \E t \in TicketIds, n \in 1..MaxEligible :
       \E ids \in [1..n -> ManagerIds], loads \in [1..n -> 0..MaxLoad] :
         /\ \A i, j \in 1..n : i # j => ids[i] # ids[j]
         /\ call = [fn |-> "PickAssignee", ticketID |-> Ticket(t).ID,
                    eligible |-> Roster(ids, loads), returned |-> FALSE, ret |-> NoPick]

\* PickAssignee(ticketID, eligible) returns
ReturnPickAssignee ==
  /\ call.fn = "PickAssignee"
  /\ ~call.returned
  /\ call' = [call EXCEPT !.returned = TRUE,
                          !.ret = PickAssignee(call.ticketID, call.eligible)]
  /\ UNCHANGED <<tickets, assignments, ai_analysis, run, started, importedSincePull>>

NextCalls == ReturnPickAssignee

SpecCalls == InitCalls /\ [][NextCalls]_vars

\* the managers a roster handed to FilterEligibleManagers is drawn from: the
\* rows of the table, one whose role and skills are spelled in lower case and
\* padded, and a VIP-skilled manager without the senior role
FilterPool ==
  [k \in 1..Len(ManagerTable) |->
     [ID |-> ManagerTable[k].ID, Office |-> ManagerTable[k].Office,
      Role |-> ManagerTable[k].Role, Skills |-> ManagerTable[k].Skills,
      CurrentLoad |-> 0]]
  \o << [ID |-> Len(ManagerTable) + 1, Office |-> "ALMATY", Role |-> "glav spec",
         Skills |-> <<" vip ", "kz">>, CurrentLoad |-> 0],
       [ID |-> Len(ManagerTable) + 2, Office |-> "Karaganda", Role |-> "Specialist",
         Skills |-> <<"VIP", "ENG">>, CurrentLoad |-> 0] >>

\* the argument lists of FilterEligibleManagers on its own: every roster of up
\* to MaxEligible distinct managers of the pool, in every order, the empty
\* one included; a segment, a type, a priority on either side of the VIP
\* bound, and a language, in canonical and in irregular spelling
InitFilter ==
  /\ tickets = {}
  /\ assignments = [t \in TicketIds |-> NoRow]
  /\ ai_analysis = [t \in TicketIds |-> NoRow]
  /\ run = [r \in RunIds |-> IdleRun]
  /\ started = 0
  /\ importedSincePull = FALSE
  /\ \E n \in 0..MaxEligible :
       \E ids \in [1..n -> 1..Len(FilterPool)],
          segment \in {"VIP", "STANDARD", " vip "},
          type \in {"Change of data", "Spam", " Change of Data "},
          priority \in {VipPriority - 1, VipPriority},
          language \in {"RU", "KZ", "ENG", "DE", " kz "} :
         /\ \A i, j \in 1..n : i # j => ids[i] # ids[j]
         /\ call = [fn |-> "FilterEligibleManagers",
                    managers |-> [k \in 1..n |-> FilterPool[ids[k]]],
                    ticket |-> [Segment |-> segment],
                    ai |-> [Type |-> type, Priority |-> priority, Language |-> language],
                    returned |-> FALSE, ret |-> EmptyEligibility]

\* FilterEligibleManagers(managers, ticket, ai) returns
ReturnFilterEligibleManagers ==
  /\ call.fn = "FilterEligibleManagers"
  /\ ~call.returned
  /\ call' = [call EXCEPT !.returned = TRUE,
                          !.ret = FilterEligibleManagers(call.managers, call.ticket, call.ai)]
  /\ UNCHANGED <<tickets, assignments, ai_analysis, run, started, importedSincePull>>

NextFilter == ReturnFilterEligibleManagers

SpecFilter == InitFilter /\ [][NextFilter]_vars

\* the business units a list handed to SelectOffice is drawn from: the rows
\* of the table, a unit with a latitude but no longitude at the place of
\* ASTANA, and a unit spelled in lower case at the place of Shymkent
UnitPool ==
  UnitTable \o << [Name |-> "Karaganda", Lat |-> 1, Lon |-> NilCoord],
                  [Name |-> "almaty", Lat |-> 3, Lon |-> 3] >>

\* the argument lists of SelectOffice on its own: the ticket ids of the table,
\* an enrichment point with a confidence below, at and above the threshold,
\* and every list of up to MaxUnits distinct units of the pool, in every
\* order, the empty one included
InitOffice ==
  /\ tickets = {}
  /\ assignments = [t \in TicketIds |-> NoRow]
  /\ ai_analysis = [t \in TicketIds |-> NoRow]
  /\ run = [r \in RunIds |-> IdleRun]
  /\ started = 0
  /\ importedSincePull = FALSE
  /\ \E t \in TicketIds, n \in 0..MaxUnits :
       \E ids \in [1..n -> 1..Len(UnitPool)],
          point \in 0..3,
          confidence \in {ConfidenceThreshold - 1, ConfidenceThreshold, 90} :
         /\ \A i, j \in 1..n : i # j => ids[i] # ids[j]
         /\ call = [fn |-> "SelectOffice", ticketID |-> Ticket(t).ID,
                    ai |-> [Point |-> point, Confidence |-> confidence],
                    units |-> [k \in 1..n |-> UnitPool[ids[k]]],
                    returned |-> FALSE, ret |-> [office |-> "", usedGeo |-> FALSE]]

\* SelectOffice(ticketID, ai, units) returns
ReturnSelectOffice ==
  /\ call.fn = "SelectOffice"
  /\ ~call.returned
  /\ call' = [call EXCEPT !.returned = TRUE,
                          !.ret = SelectOffice(call.ticketID, call.ai, call.units)]
  /\ UNCHANGED <<tickets, assignments, ai_analysis, run, started, importedSincePull>>

NextOffice == ReturnSelectOffice

SpecOffice == InitOffice /\ [][NextOffice]_vars

\* faulty variant: the reading of the clock is put into the reasoning too
StampedOutcomeTimedReasoning(t, ai, dec, now) ==
  [reasoning |-> <<ReasoningOf(t, ai, dec), now>>, assignedAt |-> now]

\* what an iteration hands to the store for an enriched ticket: the
\* reasoning it built, and the AssignedAt that writeAssignment reads from the
\* clock
StampedOutcome(t, ai, dec, now) ==
  [reasoning |-> ReasoningOf(t, ai, dec), assignedAt |-> now]

\* the state of a run that read startLoad at its start and holds loadMap now
RunWith(startLoad, loadMap) ==
  [IdleRun EXCEPT !.pc = "loop", !.startLoad = startLoad, !.loadMap = loadMap]

\* one ticket, one normalized enrichment and one in-run load per manager, to
\* be decided twice
InitReasoning ==
  /\ tickets = {}
  /\ assignments = [t \in TicketIds |-> NoRow]
  /\ ai_analysis = [t \in TicketIds |-> NoRow]
  /\ run = [r \in RunIds |-> IdleRun]
  /\ started = 0
  /\ importedSincePull = FALSE
  /\ \E t \in TicketIds, raw \in EnricherAnswers, loadMap \in [ManagerIds -> 0..MaxLoad] :
       call = [fn |-> "Decide", t |-> t, ai |-> normalizeAI(raw), loadMap |-> loadMap,
               returned |-> <<FALSE, FALSE>>, ret |-> << <<>>, <<>> >>]

\* the n-th of the two decisions is made: at some reading of the clock, in a
\* run that read the present loads at its start or one that started from no
\* load and reached them (the roster order differs, the loads do not)
ReturnDecide(n) ==
  /\ call.fn = "Decide"
  /\ ~call.returned[n]
  /\ \E now \in 1..MaxClock, startLoad \in {call.loadMap, [m \in ManagerIds |-> 0]} :
       \E dec \in {Decide(RunWith(startLoad, call.loadMap), call.t, call.ai)} :
         call' = [call EXCEPT !.returned[n] = TRUE,
                              !.ret[n] = StampedOutcome(call.t, call.ai, dec, now)]
  /\ UNCHANGED <<tickets, assignments, ai_analysis, run, started, importedSincePull>>

NextReasoning == \E n \in 1..2 : ReturnDecide(n)

SpecReasoning == InitReasoning /\ [][NextReasoning]_vars

(* -------------------------------- properties --------------------------- *)
\* C1: every assignments row with status ASSIGNED names a manager of the
\* table who has skill VIP if the ticket's segment is VIP or the stored
\* priority is >= 9, holds the senior role if the stored type is
\* 'Change of data', and has the stored language as a skill if that language
\* is KZ, ENG or RU.
C1_AssignedManagerMeetsHardRules ==
  \A t \in TicketIds :
    assignments[t].status = "ASSIGNED" =>
      /\ assignments[t].manager \in ManagerIds
      /\ \E row \in {ManagerTable[assignments[t].manager]} :
         \E skills \in {{ToUpper(TrimSpace(row.Skills[k])) : k \in 1..Len(row.Skills)}} :
           /\ (Ticket(t).Segment = "VIP" \/ ai_analysis[t].Priority >= 9) => "VIP" \in skills
           /\ ai_analysis[t].Type = "Change of data" => row.Role = "Glav spec"
           /\ ai_analysis[t].Language \in {"KZ", "ENG", "RU"} => ai_analysis[t].Language \in skills

\* a finished run has assigned a priority-9 Kazakh-language ticket across offices
C1_Witness ==
  /\ run[1].pc = "done"
  /\ \E t \in TicketIds :
       /\ assignments[t].status = "ASSIGNED"
       /\ assignments[t].reasonCode = "ASSIGNED_CROSS_OFFICE"
       /\ ai_analysis[t].Priority >= 9
       /\ ai_analysis[t].Language = "KZ"

\* C2: the load of manager m that the k-th iteration of a run saw equals m's
\* load at the start of the run plus the number of earlier iterations of the
\* run whose ASSIGNED outcome naming m was committed; iterations that ended
\* UNASSIGNED or ERROR add nothing.
C2_InRunLoadIsStartPlusAssigned ==
  \A r \in SeqRunIds : \A k \in 1..Len(run[r].log) :
    \A m \in DOMAIN run[r].log[k].seen :
      run[r].log[k].seen[m] =
        run[r].startLoad[m]
        + Cardinality({j \in 1..(k - 1) :
                         /\ run[r].log[j].writes[1].ok
                         /\ run[r].log[j].writes[1].status = "ASSIGNED"
                         /\ run[r].log[j].writes[1].manager = m})

\* the first iteration committed its outcome and the second saw a manager
\* one above the load read at the start of the run
C2_Witness ==
  /\ Len(run[1].log) = 2
  /\ run[1].log[2].branch \in {"LOCAL", "CROSS"}
  /\ \E m \in DOMAIN run[1].log[2].seen :
       run[1].log[2].seen[m] = run[1].startLoad[m] + 1
  /\ run[1].log[1].writes[1].ok

\* C3: for a non-empty eligible list, the considered set PickAssignee
\* returns is the whole list when it has at most two managers and otherwise
\* its two smallest managers, in the order load ascending then id ascending,
\* and the assignee is the element of the considered set at index
\* hash(ticket id) mod its length.
C3_PickAssigneeConsideredSet ==
  (call.fn = "PickAssignee" /\ call.returned) =>
    \E e \in {call.eligible}, c \in {call.ret.top2} :
      /\ Len(c) = (IF Len(e) <= 2 THEN Len(e) ELSE 2)
      /\ \A i \in 1..Len(c) : \E k \in 1..Len(e) : e[k] = c[i]
      /\ \A i \in 1..(Len(c) - 1) :
           \/ c[i].CurrentLoad < c[i + 1].CurrentLoad
           \/ (c[i].CurrentLoad = c[i + 1].CurrentLoad /\ c[i].ID < c[i + 1].ID)
      /\ \A k \in 1..Len(e) :
           \/ \E i \in 1..Len(c) : c[i] = e[k]
           \/ c[Len(c)].CurrentLoad < e[k].CurrentLoad
           \/ (c[Len(c)].CurrentLoad = e[k].CurrentLoad /\ c[Len(c)].ID < e[k].ID)
      /\ call.ret.assignee = c[(Fnv1a64(call.ticketID)[1] % Len(c)) + 1]

\* three managers went in, the last of them is the second of the considered
\* set and is the one chosen
C3_Witness ==
  /\ call.fn = "PickAssignee"
  /\ call.returned
  /\ Len(call.eligible) = 3
  /\ Len(call.ret.top2) = 2
  /\ call.ret.top2[2] = call.eligible[3]
  /\ call.ret.assignee = call.eligible[3]

\* C4 as stated: a run that starts after a completed run, with no ticket
\* imported since that run pulled, pulls no ticket, calls the Enricher for
\* none and writes nothing.
C4_SecondRunPullsNothing ==
  \A r \in SeqRunIds :
    run[r].afterQuiet =>
      /\ Len(run[r].tickets) = 0
      /\ Len(run[r].calls) = 0
      /\ Len(run[r].log) = 0

\* C4: a run that starts after a completed run, with no ticket imported since
\* that run pulled, pulls exactly the tickets the earlier run visited without
\* committing an outcome for them, calls the Enricher and writes for no
\* other ticket, and so does nothing when the earlier run committed an
\* outcome for every ticket it visited.
C4_SecondRunPullsOnlyUnwritten ==
  \A r \in SeqRunIds :
    run[r].afterQuiet =>
      /\ {run[r].tickets[k] : k \in 1..Len(run[r].tickets)} = run[r].prevUnwritten
      /\ \A k \in 1..Len(run[r].calls) : run[r].calls[k].t \in run[r].prevUnwritten
      /\ \A k \in 1..Len(run[r].log) : run[r].log[k].t \in run[r].prevUnwritten
      /\ run[r].prevUnwritten = {} => (Len(run[r].calls) = 0 /\ Len(run[r].log) = 0)

\* the earlier run visited two tickets and committed an outcome for one; the
\* next run pulled the other and has finished
C4_Witness ==
  /\ run[1].afterQuiet
  /\ run[1].pc = "done"
  /\ run[1].prevVisited = 2
  /\ Len(run[1].tickets) = 1

C6_NoRunOverwritesAnOutcome ==
  \A r \in RunIds : \A k \in 1..Len(run[r].log) :
    \A w \in 1..Len(run[r].log[k].writes) :
      run[r].log[k].writes[w].ok => ~run[r].log[k].writes[w].existed

\* C6: a run that did not overlap in time with another run never commits an
\* outcome for a ticket that already had an assignments row; only a run that
\* overlapped another one does.
C6_OnlyOverlappingRunsOverwrite ==
  \A r \in RunIds : \A k \in 1..Len(run[r].log) :
    \A w \in 1..Len(run[r].log[k].writes) :
      (run[r].log[k].writes[w].ok /\ run[r].log[k].writes[w].existed) => run[r].overlapped

\* two runs one after the other, each committing an outcome, neither
\* overlapping the other
C6_Witness ==
  /\ run[1].pc = "done"
  /\ run[2].pc = "done"
  /\ ~run[1].overlapped
  /\ ~run[2].overlapped
  /\ \E k \in 1..Len(run[1].log) : run[1].log[k].writes[1].ok
  /\ \E k \in 1..Len(run[2].log) : run[2].log[k].writes[1].ok

\* C7 as stated: whenever the first outcome write of an enriched ticket
\* fails, in the local, the cross-office or the unassigned branch, the run
\* attempts an ERROR / DB_ERROR outcome for it, and the unassigned counter
\* counts only the tickets whose UNASSIGNED outcome was committed.
C7_FailedWriteRecordsDbError ==
  \A r \in SeqRunIds :
    /\ \A k \in 1..Len(run[r].log) :
         (run[r].log[k].branch # "AI_ERROR" /\ ~run[r].log[k].writes[1].ok) =>
           /\ Len(run[r].log[k].writes) = 2
           /\ run[r].log[k].writes[2].status = "ERROR"
           /\ run[r].log[k].writes[2].reasonCode = "DB_ERROR"
    /\ run[r].counts.unassigned =
         Cardinality({k \in 1..Len(run[r].log) :
                        /\ run[r].log[k].branch = "UNASSIGNED"
                        /\ run[r].log[k].writes[1].ok})

\* C8: an iteration whose Enricher call failed adds exactly one to ai_errors,
\* attempts one outcome write with status ERROR, reason code AI_ERROR, no
\* manager and office UNKNOWN, leaves every in-run load as it was, makes no
\* further Enricher call for the ticket and moves the loop to the next
\* ticket; the Enricher is called once per visited ticket.
C8_EnricherFailureIsRecordedOnce ==
  /\ [](\A r \in SeqRunIds :
          /\ Len(run[r].calls) \in {Len(run[r].log), Len(run[r].log) + 1}
          /\ \A k \in 1..Len(run[r].calls) : run[r].calls[k].t = run[r].tickets[k]
          /\ \A k \in 1..Len(run[r].log) :
               run[r].log[k].branch = "AI_ERROR" =>
                 /\ Len(run[r].log[k].writes) = 1
                 /\ run[r].log[k].writes[1].status = "ERROR"
                 /\ run[r].log[k].writes[1].reasonCode = "AI_ERROR"
                 /\ run[r].log[k].writes[1].manager = NoManager
                 /\ run[r].log[k].writes[1].office = "UNKNOWN"
                 /\ run[r].log[k].writes[1].ok =>
                      assignments[run[r].log[k].t] =
                        [status |-> "ERROR", manager |-> NoManager,
                         office |-> "UNKNOWN", reasonCode |-> "AI_ERROR"])
  /\ [][\A r \in SeqRunIds :
          (/\ run[r].pc = "enriching"
           /\ Len(run'[r].log) = Len(run[r].log) + 1
           /\ run'[r].log[Len(run'[r].log)].branch = "AI_ERROR") =>
            /\ run'[r].counts.aiErrors = run[r].counts.aiErrors + 1
            /\ run'[r].counts.assigned = run[r].counts.assigned
            /\ run'[r].counts.unassigned = run[r].counts.unassigned
            /\ run'[r].loadMap = run[r].loadMap
            /\ run'[r].calls = run[r].calls
            /\ run'[r].i = run[r].i + 1
            /\ run'[r].pc = "loop"]_vars

\* the Enricher failed for the first ticket, the ERROR outcome was committed
\* and the run went on to call the Enricher for the second ticket
C8_Witness ==
  /\ Len(run[1].log) >= 1
  /\ run[1].log[1].branch = "AI_ERROR"
  /\ run[1].log[1].writes[1].ok
  /\ assignments[run[1].log[1].t].reasonCode = "AI_ERROR"
  /\ run[1].counts.aiErrors = 1
  /\ Len(run[1].calls) = 2

\* C9 as stated: no Enricher call of a run is issued with the run's context
\* already canceled.
C9_NoEnricherCallAfterCancel ==
  \A r \in SeqRunIds : \A k \in 1..Len(run[r].calls) : ~run[r].calls[k].canceled

\* C10: whatever enrichment and write failures occur, the tickets a run has
\* visited are a prefix of the list it pulled, each once and in order; a
\* returned run has visited them all, returns no error and reports
\* tickets_processed equal to the number pulled; and every run that entered
\* its loop returns.
C10_RunVisitsAllAndReturns ==
  /\ [](\A r \in SeqRunIds :
          /\ Len(run[r].log) <= Len(run[r].tickets)
          /\ \A k \in 1..Len(run[r].log) : run[r].log[k].t = run[r].tickets[k]
          /\ Active(r) => run[r].i = Len(run[r].log) + 1
          /\ run[r].pc = "done" =>
               /\ Len(run[r].log) = Len(run[r].tickets)
               /\ ~run[r].err
               /\ run[r].counts.ticketsProcessed = Len(run[r].tickets))
  /\ \A r \in SeqRunIds : Active(r) ~> (run[r].pc = "done")

\* a run returned after two tickets: the Enricher failed for one, and both
\* writes failed for the other
C10_Witness ==
  /\ run[1].pc = "done"
  /\ Len(run[1].tickets) = 2
  /\ run[1].counts.ticketsProcessed = 2
  /\ \E j, k \in 1..2 :
       /\ run[1].log[j].branch = "AI_ERROR"
       /\ Len(run[1].log[k].writes) = 2
       /\ ~run[1].log[k].writes[2].ok

\* C11: a run whose read of the tickets, the offices or the managers failed
\* returns that error, has called the Enricher for no ticket, has attempted
\* no outcome write and counted nothing; the step that fails leaves the
\* tickets, ai_analysis and assignments tables as they were.
C11_SetupFailureAbortsTheRun ==
  /\ [](\A r \in SeqRunIds :
          run[r].setupError # "" =>
            /\ run[r].pc = "failed"
            /\ run[r].err
            /\ run[r].calls = <<>>
            /\ run[r].log = <<>>
            /\ run[r].counts = ZeroCounts)
  /\ [][\A r \in SeqRunIds :
          (run'[r].setupError # "" /\ run'[r] # run[r]) =>
            /\ tickets' = tickets
            /\ ai_analysis' = ai_analysis
            /\ assignments' = assignments]_vars

\* the read of the managers failed for a run started when a ticket was
\* waiting and an earlier run had committed an outcome
C11_Witness ==
  /\ run[1].pc = "failed"
  /\ run[1].setupError = "managers"
  /\ \E t \in tickets : assignments[t] = NoRow
  /\ \E t \in tickets : assignments[t] # NoRow

\* C12: a ticket has an assignments row exactly when it has an ai_analysis
\* row; after a committed write the ai_analysis row is the enrichment that
\* write carried (the empty one for an ERROR outcome); an iteration leaves
\* the rows of every other ticket alone, and leaves both tables exactly as
\* they were when every write it attempted failed, whether the failure came
\* between the two upserts or at commit.
C12_EnrichmentAndAssignmentCommitTogether ==
  /\ [](/\ \A t \in TicketIds : (assignments[t] = NoRow) <=> (ai_analysis[t] = NoRow)
        /\ \A r \in SeqRunIds : \A k \in 1..Len(run[r].log) :
             \A w \in 1..Len(run[r].log[k].writes) :
               run[r].log[k].writes[w].ok =>
                 /\ assignments[run[r].log[k].t].status = run[r].log[k].writes[w].status
                 /\ ai_analysis[run[r].log[k].t] =
                      (IF run[r].log[k].writes[w].status = "ERROR"
                       THEN EmptyAI ELSE run[r].log[k].ai))
  /\ [][\A r \in SeqRunIds :
          Len(run'[r].log) = Len(run[r].log) + 1 =>
            /\ \A t \in TicketIds \ {run'[r].log[Len(run'[r].log)].t} :
                 /\ assignments'[t] = assignments[t]
                 /\ ai_analysis'[t] = ai_analysis[t]
            /\ (\A w \in 1..Len(run'[r].log[Len(run'[r].log)].writes) :
                  ~run'[r].log[Len(run'[r].log)].writes[w].ok)
                 => (assignments' = assignments /\ ai_analysis' = ai_analysis)]_vars

\* one ticket holds the ERROR row and the empty enrichment of a DB_ERROR
\* write that followed a failed assignment write; another, whose two writes
\* failed, has neither row
C12_Witness ==
  \E j, k \in 1..Len(run[1].log) :
    /\ Len(run[1].log[j].writes) = 2
    /\ run[1].log[j].writes[2].ok
    /\ assignments[run[1].log[j].t].reasonCode = "DB_ERROR"
    /\ ai_analysis[run[1].log[j].t] = EmptyAI
    /\ Len(run[1].log[k].writes) = 2
    /\ ~run[1].log[k].writes[2].ok
    /\ assignments[run[1].log[k].t] = NoRow
    /\ ai_analysis[run[1].log[k].t] = NoRow

\* C13: for every enriched ticket of a run, if no manager of the selected
\* office meets the ticket's hard rules and some manager of another office
\* does, the iteration takes the cross-office branch: the outcome it writes
\* is ASSIGNED with reason code ASSIGNED_CROSS_OFFICE, the manager is among
\* those the global pass kept and meets the hard rules, and the office
\* written is the manager's own office, not the selected one; a committed
\* write leaves exactly that in the assignments row.
C13_CrossOfficeAssignsToManagersOwnOffice ==
  \A r \in SeqRunIds : \A k \in 1..Len(run[r].log) :
    \E e \in {run[r].log[k]} :
    \E meets \in {{m \in ManagerIds :
                     \E skills \in {{ManagerTable[m].Skills[j] :
                                       j \in 1..Len(ManagerTable[m].Skills)}} :
                       /\ (Ticket(e.t).Segment = "VIP" \/ e.ai.Priority >= 9) => "VIP" \in skills
                       /\ e.ai.Type = "Change of data" => ManagerTable[m].Role = "Glav spec"
                       /\ e.ai.Language \in {"KZ", "ENG", "RU"} => e.ai.Language \in skills}} :
      ( /\ e.branch # "AI_ERROR"
        /\ \A m \in meets : ManagerTable[m].Office # e.office
        /\ meets # {} )
      => /\ e.branch = "CROSS"
         /\ e.localEligible = <<>>
         /\ {e.globalEligible[j] : j \in 1..Len(e.globalEligible)} = meets
         /\ e.manager \in meets
         /\ e.writes[1].status = "ASSIGNED"
         /\ e.writes[1].reasonCode = "ASSIGNED_CROSS_OFFICE"
         /\ e.writes[1].manager = e.manager
         /\ e.writes[1].office = ManagerTable[e.manager].Office
         /\ e.writes[1].office # e.office
         /\ e.writes[1].ok =>
              /\ assignments[e.t].status = "ASSIGNED"
              /\ assignments[e.t].reasonCode = "ASSIGNED_CROSS_OFFICE"
              /\ assignments[e.t].manager = e.manager
              /\ assignments[e.t].office = ManagerTable[e.manager].Office

\* a ticket routed by its coordinates to Shymkent, which has no managers, was
\* committed to a manager of another office, and the row holds that office
C13_Witness ==
  \E k \in 1..Len(run[1].log) :
    /\ run[1].log[k].branch = "CROSS"
    /\ run[1].log[k].usedGeo
    /\ run[1].log[k].localEligible = <<>>
    /\ run[1].log[k].writes[1].ok
    /\ run[1].log[k].office = "Shymkent"
    /\ assignments[run[1].log[k].t].office \in {"ASTANA", "ALMATY"}
    /\ assignments[run[1].log[k].t].manager = run[1].log[k].manager

\* C14: for every enriched ticket of a run, if no manager of any office meets
\* the ticket's hard rules, the outcome the iteration writes is UNASSIGNED
\* with reason code NO_ELIGIBLE_MANAGERS_GLOBAL and no manager; the reason
\* code of the global pass is the code of the first rule that no manager
\* survived (VIP_REQUIRED_NO_MATCH, then ROLE_MISMATCH, then
\* LANGUAGE_MISMATCH), and the reasoning record holds a LOCAL and a GLOBAL
\* attempt, the GLOBAL one carrying that code as failed_reason_code, with no
\* pick.
C14_UnassignedKeepsGlobalStageCode ==
  \A r \in SeqRunIds : \A k \in 1..Len(run[r].log) :
    \E e \in {run[r].log[k]} :
    \E needsVIP \in {Ticket(e.t).Segment = "VIP" \/ e.ai.Priority >= 9},
       needsRole \in {e.ai.Type = "Change of data"},
       needsLang \in {e.ai.Language \in {"KZ", "ENG", "RU"}} :
    \E vip \in {{m \in ManagerIds :
                   needsVIP => \E j \in 1..Len(ManagerTable[m].Skills) :
                                 ManagerTable[m].Skills[j] = "VIP"}} :
    \E role \in {{m \in vip : needsRole => ManagerTable[m].Role = "Glav spec"}} :
    \E lang \in {{m \in role :
                    needsLang => \E j \in 1..Len(ManagerTable[m].Skills) :
                                   ManagerTable[m].Skills[j] = e.ai.Language}} :
      (e.branch # "AI_ERROR" /\ lang = {})
      => /\ e.branch = "UNASSIGNED"
         /\ e.localEligible = <<>> /\ e.globalEligible = <<>>
         /\ e.manager = NoManager
         /\ Len(e.writes) = 1
         /\ e.writes[1].status = "UNASSIGNED"
         /\ e.writes[1].reasonCode = "NO_ELIGIBLE_MANAGERS_GLOBAL"
         /\ e.writes[1].manager = NoManager
         /\ e.writes[1].office = e.office
         /\ e.globalReason = (IF vip = {} THEN "VIP_REQUIRED_NO_MATCH"
                              ELSE IF role = {} THEN "ROLE_MISMATCH"
                              ELSE "LANGUAGE_MISMATCH")
         /\ Len(e.reasoning.attempts) = 2
         /\ e.reasoning.attempts[1].scope = "LOCAL"
         /\ e.reasoning.attempts[1].failed_reason_code # ""
         /\ e.reasoning.attempts[2].scope = "GLOBAL"
         /\ e.reasoning.attempts[2].failed_reason_code = e.globalReason
         /\ e.reasoning.attempts[2].counts.in_office = Len(ManagerTable)
         /\ e.reasoning.fallback_cross_office
         /\ e.reasoning.picked = NoPicked /\ e.reasoning.top2 = <<>>
         /\ e.writes[1].ok =>
              /\ assignments[e.t].status = "UNASSIGNED"
              /\ assignments[e.t].reasonCode = "NO_ELIGIBLE_MANAGERS_GLOBAL"
              /\ assignments[e.t].manager = NoManager

\* a senior VIP English-language ticket found nobody in any office: the
\* UNASSIGNED row is committed and the GLOBAL attempt says LANGUAGE_MISMATCH
\* after two managers had passed the VIP and the role rule
C14_Witness ==
  \E k \in 1..Len(run[1].log) :
    /\ run[1].log[k].branch = "UNASSIGNED"
    /\ run[1].log[k].writes[1].ok
    /\ assignments[run[1].log[k].t].status = "UNASSIGNED"
    /\ run[1].log[k].globalReason = "LANGUAGE_MISMATCH"
    /\ run[1].log[k].reasoning.attempts[2].failed_reason_code = "LANGUAGE_MISMATCH"
    /\ run[1].log[k].reasoning.attempts[2].counts.after_role = 2
    /\ run[1].log[k].reasoning.attempts[2].counts.after_language = 0

\* C15 as stated: every enriched ticket routed to an office without managers
\* ends UNASSIGNED with reason code NO_ELIGIBLE_MANAGERS.
C15_EmptyRosterIsUnassigned ==
  \A r \in SeqRunIds : \A k \in 1..Len(run[r].log) :
    ( /\ run[r].log[k].branch # "AI_ERROR"
      /\ \A m \in ManagerIds : ManagerTable[m].Office # run[r].log[k].office )
    => /\ run[r].log[k].writes[1].status = "UNASSIGNED"
       /\ run[r].log[k].writes[1].reasonCode = "NO_ELIGIBLE_MANAGERS"

\* C15, amended: for every enriched ticket routed to an office without
\* managers the local pass keeps nobody and its attempt in the reasoning
\* record says NO_ELIGIBLE_MANAGERS with zero candidates; no error outcome is
\* written and the run does not fail; the global pass then decides the
\* outcome: ASSIGNED with ASSIGNED_CROSS_OFFICE when some manager of another
\* office meets the hard rules, UNASSIGNED with NO_ELIGIBLE_MANAGERS_GLOBAL
\* otherwise.
C15_EmptyRosterFallsToGlobalPass ==
  \A r \in SeqRunIds : \A k \in 1..Len(run[r].log) :
    \E e \in {run[r].log[k]} :
    \E meets \in {{m \in ManagerIds :
                     \E skills \in {{ManagerTable[m].Skills[j] :
                                       j \in 1..Len(ManagerTable[m].Skills)}} :
                       /\ (Ticket(e.t).Segment = "VIP" \/ e.ai.Priority >= 9) => "VIP" \in skills
                       /\ e.ai.Type = "Change of data" => ManagerTable[m].Role = "Glav spec"
                       /\ e.ai.Language \in {"KZ", "ENG", "RU"} => e.ai.Language \in skills}} :
      ( /\ e.branch # "AI_ERROR"
        /\ \A m \in ManagerIds : ManagerTable[m].Office # e.office )
      => /\ e.localEligible = <<>>
         /\ e.reasoning.attempts[1].scope = "LOCAL"
         /\ e.reasoning.attempts[1].counts.in_office = 0
         /\ e.reasoning.attempts[1].failed_reason_code = "NO_ELIGIBLE_MANAGERS"
         /\ Len(e.reasoning.attempts) = 2
         /\ run[r].pc # "failed"
         /\ e.writes[1].status # "ERROR"
         /\ e.writes[1].reasonCode =
              (IF meets # {} THEN "ASSIGNED_CROSS_OFFICE" ELSE "NO_ELIGIBLE_MANAGERS_GLOBAL")
         /\ e.writes[1].status = (IF meets # {} THEN "ASSIGNED" ELSE "UNASSIGNED")
         /\ e.writes[1].manager \in (IF meets # {} THEN meets ELSE {NoManager})

\* one run routed two tickets to Shymkent, which has no managers: one was
\* assigned across offices, the other found nobody anywhere
C15_Witness ==
  \E j, k \in 1..Len(run[1].log) :
    /\ run[1].log[j].office = "Shymkent" /\ run[1].log[k].office = "Shymkent"
    /\ run[1].log[j].reasoning.attempts[1].failed_reason_code = "NO_ELIGIBLE_MANAGERS"
    /\ run[1].log[k].reasoning.attempts[1].failed_reason_code = "NO_ELIGIBLE_MANAGERS"
    /\ run[1].log[j].writes[1].reasonCode = "ASSIGNED_CROSS_OFFICE"
    /\ run[1].log[k].writes[1].reasonCode = "NO_ELIGIBLE_MANAGERS_GLOBAL"

\* C16: for every enriched ticket of a run, if some manager of the selected
\* office meets the ticket's hard rules, the outcome written is ASSIGNED with
\* reason code ASSIGNED_LOCAL to such a manager, the office written is the
\* selected office, the reasoning record holds the LOCAL attempt alone and
\* nothing of a global pass; and an iteration whose record shows a global
\* pass (a GLOBAL attempt, the cross-office or the unassigned branch) is one
\* where no manager of the selected office meets the rules.
C16_GlobalPassOnlyAfterEmptyLocalPass ==
  \A r \in SeqRunIds : \A k \in 1..Len(run[r].log) :
    \E e \in {run[r].log[k]} :
    \E localMeets \in {{m \in ManagerIds :
                     /\ ManagerTable[m].Office = e.office
                     /\ \E skills \in {{ManagerTable[m].Skills[j] :
                                          j \in 1..Len(ManagerTable[m].Skills)}} :
                          /\ (Ticket(e.t).Segment = "VIP" \/ e.ai.Priority >= 9)
                               => "VIP" \in skills
                          /\ e.ai.Type = "Change of data" => ManagerTable[m].Role = "Glav spec"
                          /\ e.ai.Language \in {"KZ", "ENG", "RU"}
                               => e.ai.Language \in skills}} :
      e.branch # "AI_ERROR" =>
        /\ localMeets # {} =>
             /\ e.branch = "LOCAL"
             /\ {e.localEligible[j] : j \in 1..Len(e.localEligible)} = localMeets
             /\ e.manager \in localMeets
             /\ e.writes[1].status = "ASSIGNED"
             /\ e.writes[1].reasonCode = "ASSIGNED_LOCAL"
             /\ e.writes[1].manager = e.manager
             /\ e.writes[1].office = e.office
             /\ Len(e.reasoning.attempts) = 1
             /\ e.reasoning.attempts[1].scope = "LOCAL"
             /\ e.reasoning.attempts[1].failed_reason_code = ""
             /\ ~e.reasoning.fallback_cross_office
             /\ e.globalEligible = <<>> /\ e.globalReason = ""
             /\ \A m \in DOMAIN e.seen : ManagerTable[m].Office = e.office
             /\ e.writes[1].ok =>
                  /\ assignments[e.t].status = "ASSIGNED"
                  /\ assignments[e.t].reasonCode = "ASSIGNED_LOCAL"
                  /\ assignments[e.t].office = e.office
        /\ ( \/ e.branch \in {"CROSS", "UNASSIGNED"}
             \/ \E j \in 1..Len(e.reasoning.attempts) :
                  e.reasoning.attempts[j].scope = "GLOBAL" )
           => localMeets = {}

\* one run assigned a ticket inside the office its coordinates selected,
\* with the LOCAL attempt alone, and sent another ticket through the global
\* pass
C16_Witness ==
  \E j, k \in 1..Len(run[1].log) :
    /\ run[1].log[j].branch = "LOCAL"
    /\ run[1].log[j].usedGeo
    /\ run[1].log[j].writes[1].ok
    /\ assignments[run[1].log[j].t].reasonCode = "ASSIGNED_LOCAL"
    /\ Len(run[1].log[j].reasoning.attempts) = 1
    /\ Len(run[1].log[j].localEligible) >= 2
    /\ run[1].log[k].branch = "CROSS"
    /\ Len(run[1].log[k].reasoning.attempts) = 2

\* C17: whatever roster, ticket and enrichment FilterEligibleManagers is
\* called with, its Eligible is the roster, in roster order, cut down to the
\* managers that pass every applicable rule: skill VIP if the segment is VIP
\* or the priority is >= 9, the senior role if the type is 'Change of data',
\* the language skill if the language is KZ, ENG or RU (names compared
\* without regard to case and surrounding space); a recorded stage whose
\* rule does not apply holds the same candidates as the stage before it.
C17_EligibleIsRosterCutToRulePassers ==
  (call.fn = "FilterEligibleManagers" /\ call.returned) =>
    LET needsVIP  == ToLower(TrimSpace(call.ticket.Segment)) = "vip"
                     \/ call.ai.Priority >= 9
        needsRole == ToLower(TrimSpace(call.ai.Type)) = "change of data"
        lang      == ToLower(TrimSpace(call.ai.Language))
        needsLang == lang \in {"kz", "eng", "ru"}
        Skilled(m, name) == \E j \in 1..Len(m.Skills) : ToLower(TrimSpace(m.Skills[j])) = name
        Passes(m) == /\ needsVIP => Skilled(m, "vip")
                     /\ needsRole => ToLower(TrimSpace(m.Role)) = "glav spec"
                     /\ needsLang => Skilled(m, lang)
        stages == call.ret.Stages
    IN  /\ call.ret.Eligible = SelectSeq(call.managers, Passes)
        /\ (~needsVIP /\ ~needsRole /\ ~needsLang) => call.ret.Eligible = call.managers
        /\ (Len(stages) >= 2 /\ ~needsVIP) => stages[2].Candidates = stages[1].Candidates
        /\ (Len(stages) >= 3 /\ ~needsRole) => stages[3].Candidates = stages[2].Candidates
        /\ (Len(stages) >= 4 /\ ~needsLang) => stages[4].Candidates = stages[3].Candidates

\* a roster of three under all three rules, spelled irregularly: the first
\* and the third manager are kept, in that order, the second is removed
C17_Witness ==
  /\ call.fn = "FilterEligibleManagers" /\ call.returned
  /\ Len(call.managers) = 3
  /\ call.ticket.Segment = " vip "
  /\ call.ai.Type = " Change of Data "
  /\ call.ai.Language = " kz "
  /\ call.ret.Eligible = <<call.managers[1], call.managers[3]>>

\* C18: whatever FilterEligibleManagers is called with, its reason code is
\* empty exactly when Eligible is non-empty; when Eligible is empty, the last
\* recorded stage is the first stage, in the order office_candidates,
\* vip_rule, role_rule, language_rule, whose candidates are empty, every
\* stage before it is non-empty, and the reason code is the one of that
\* stage: NO_ELIGIBLE_MANAGERS, VIP_REQUIRED_NO_MATCH, ROLE_MISMATCH,
\* LANGUAGE_MISMATCH.
C18_ReasonCodeNamesFirstEmptyStage ==
  (call.fn = "FilterEligibleManagers" /\ call.returned) =>
    LET stages == call.ret.Stages
        names  == <<"office_candidates", "vip_rule", "role_rule", "language_rule">>
        codes  == <<"NO_ELIGIBLE_MANAGERS", "VIP_REQUIRED_NO_MATCH", "ROLE_MISMATCH",
                    "LANGUAGE_MISMATCH">>
    IN  /\ (call.ret.ReasonCode = "") <=> (call.ret.Eligible # <<>>)
        /\ Len(stages) \in 1..4
        /\ \A k \in 1..Len(stages) : stages[k].Name = names[k]
        /\ call.ret.Eligible = <<>> =>
             /\ stages[Len(stages)].Candidates = <<>>
             /\ \A k \in 1..(Len(stages) - 1) : stages[k].Candidates # <<>>
             /\ call.ret.ReasonCode = codes[Len(stages)]
        /\ call.ret.Eligible # <<>> =>
             /\ Len(stages) = 4
             /\ \A k \in 1..4 : stages[k].Candidates # <<>>

\* a roster of two with a VIP manager but no senior one, under the VIP and
\* the role rule: ROLE_MISMATCH, and no language stage is recorded
C18_Witness ==
  /\ call.fn = "FilterEligibleManagers" /\ call.returned
  /\ Len(call.managers) = 2
  /\ call.ret.ReasonCode = "ROLE_MISMATCH"
  /\ Len(call.ret.Stages) = 3
  /\ call.ret.NeedsVIP
  /\ Len(call.ret.Stages[2].Candidates) = 1
  /\ call.ret.Eligible = <<>>

\* C19: whatever FilterEligibleManagers is called with, the recorded stages
\* are nested: the candidates of every recorded stage are among the
\* candidates of the stage recorded before it (language_rule in role_rule in
\* vip_rule in office_candidates), the first stage is the roster, and every
\* Eligible manager is in every recorded stage.
C19_StagesAreNested ==
  (call.fn = "FilterEligibleManagers" /\ call.returned) =>
    LET stages == call.ret.Stages
        Members(ms) == {ms[j] : j \in 1..Len(ms)}
    IN  /\ Len(stages) >= 1
        /\ stages[1].Candidates = call.managers
        /\ \A k \in 2..Len(stages) :
             Members(stages[k].Candidates) \subseteq Members(stages[k - 1].Candidates)
        /\ \A k \in 1..Len(stages) :
             Members(call.ret.Eligible) \subseteq Members(stages[k].Candidates)

\* a roster of three shrinks at every stage: three candidates, two after
\* the VIP rule, one after the role rule, and that one is eligible
C19_Witness ==
  /\ call.fn = "FilterEligibleManagers" /\ call.returned
  /\ Len(call.ret.Stages) = 4
  /\ Len(call.ret.Stages[1].Candidates) = 3
  /\ Len(call.ret.Stages[2].Candidates) = 2
  /\ Len(call.ret.Stages[3].Candidates) = 1
  /\ Len(call.ret.Stages[4].Candidates) = 1
  /\ Len(call.ret.Eligible) = 1

\* C20: whatever SelectOffice is called with, used_geo is true exactly when
\* the confidence is >= 0.70 and some unit of the list has both a latitude
\* and a longitude; then the office returned is the normalized name of the
\* first unit in list order, among those with both coordinates, whose
\* distance to the enrichment point is the least, so never one of a unit
\* missing a coordinate; otherwise it is one of the two fallback offices.
C20_GeoPicksNearestOfficeWithCoordinates ==
  (call.fn = "SelectOffice" /\ call.returned) =>
    LET units == call.units
        located == {i \in 1..Len(units) : units[i].Lat # NilCoord /\ units[i].Lon # NilCoord}
        Dist(i) == HaversineKm(call.ai.Point, units[i].Lat, units[i].Lon)
        Normal(name) == IF name \in {"ASTANA", "astana"} THEN "ASTANA"
                        ELSE IF name \in {"ALMATY", "almaty"} THEN "ALMATY"
                        ELSE name
    IN  /\ call.ret.usedGeo <=> (call.ai.Confidence >= 70 /\ located # {})
        /\ call.ret.usedGeo =>
             \E i \in located :
               /\ \A j \in located : Dist(i) <= Dist(j)
               /\ \A j \in located : j < i => Dist(j) > Dist(i)
               /\ call.ret.office = Normal(units[i].Name)
        /\ ~call.ret.usedGeo => call.ret.office \in {"ASTANA", "ALMATY"}

\* at confidence 0.70, a point in Shymkent and a list that starts with a unit
\* lacking its longitude, then two units at the same place: the first of the
\* two is returned under its normalized name
C20_Witness ==
  /\ call.fn = "SelectOffice" /\ call.returned
  /\ call.ai.Confidence = 70 /\ call.ai.Point = 3
  /\ Len(call.units) = 3
  /\ call.units[1].Lon = NilCoord /\ call.units[1].Lat # NilCoord
  /\ call.units[2].Name = "almaty" /\ call.units[3].Name = "Shymkent"
  /\ call.ret = [office |-> "ALMATY", usedGeo |-> TRUE]

\* C21: whenever SelectOffice returns used_geo = false, the office is fixed
\* by the ticket id alone, whatever the office list and the enrichment:
\* ASTANA when the FNV-1a sum of the id is even, ALMATY when it is odd. The
\* parity of the sum is that of 1 plus the bytes of the id (the offset basis
\* and the prime are odd, so each step adds the parity of one byte).
C21_FallbackOfficeDependsOnTicketIdOnly ==
  (call.fn = "SelectOffice" /\ call.returned /\ ~call.ret.usedGeo) =>
    \E bytes \in {call.ticketID} :
      call.ret.office =
        (IF (1 + bytes[1] + bytes[2]) % 2 = 0 THEN "ASTANA" ELSE "ALMATY")

\* a confident enrichment and a list of two units, none of which has both
\* coordinates: the fallback is taken and gives ALMATY
C21_Witness ==
  /\ call.fn = "SelectOffice" /\ call.returned
  /\ call.ai.Confidence = 90
  /\ Len(call.units) = 2
  /\ ~call.ret.usedGeo
  /\ call.ret.office = "ALMATY"

C23_PickAssigneeIgnoresListOrder ==
  (call.fn = "PickAssignee" /\ call.returned) =>
    /\ \A i, j \in 1..Len(call.eligible) :
         PickAssignee(call.ticketID,
                      [k \in 1..Len(call.eligible) |->
                         IF k = i THEN call.eligible[j]
                         ELSE IF k = j THEN call.eligible[i]
                         ELSE call.eligible[k]]) = call.ret
    /\ PickAssignee(call.ticketID, SortByLoad(call.eligible)) = call.ret

\* three managers came in from the most to the least loaded; the considered
\* set is the last two in reverse
C23_Witness ==
  /\ call.fn = "PickAssignee" /\ call.returned
  /\ Len(call.eligible) = 3
  /\ call.eligible[1].CurrentLoad > call.eligible[2].CurrentLoad
  /\ call.eligible[2].CurrentLoad > call.eligible[3].CurrentLoad
  /\ call.ret.top2 = <<call.eligible[3], call.eligible[2]>>
  /\ call.ret.assignee \in {call.eligible[2], call.eligible[3]}

\* C24: two decisions made for the same ticket, enrichment, office list and
\* manager loads build the same reasoning record, whatever the clock reads
\* at each of them and in whatever order the roster came from the store.
C24_ReasoningIsAFunctionOfItsInputs ==
  (call.fn = "Decide" /\ call.returned[1] /\ call.returned[2]) =>
    call.ret[1].reasoning = call.ret[2].reasoning

\* the same ticket was decided at two readings of the clock and assigned
\* across offices both times: two attempts and a pick in the record
C24_Witness ==
  /\ call.fn = "Decide" /\ call.returned[1] /\ call.returned[2]
  /\ call.ret[1].assignedAt # call.ret[2].assignedAt
  /\ Len(call.ret[1].reasoning.attempts) = 2
  /\ call.ret[1].reasoning.picked.manager_id # NoManager
  /\ call.ret[2].reasoning.top2[1].load > 0

\* C25 (as stated): every reasoning record written for an enriched ticket
\* holds exactly one LOCAL attempt, a GLOBAL attempt exactly when the global
\* pass was evaluated, a failing reason code on an attempt exactly when that
\* pass kept nobody, and per-stage counts equal to the sizes of the stages the
\* filter recorded, 0 for a stage it did not reach.
C25_EveryWrittenReasoningHoldsTheAttempts ==
  \A r \in RunIds : \A n \in 1..Len(run[r].log) :
    LET e == run[r].log[n]
        roster == AllManagers(run[r])
        passOf(scope) ==
          IF scope = "LOCAL"
          THEN FilterEligibleManagers(managerByOffice(roster, e.office), Ticket(e.t), e.ai)
          ELSE FilterEligibleManagers(roster, Ticket(e.t), e.ai)
        keptOf(scope) == IF scope = "LOCAL" THEN e.localEligible ELSE e.globalEligible
        sizeOf(elig, name) ==
          IF \E k \in 1..Len(elig.Stages) : elig.Stages[k].Name = name
          THEN Len(elig.Stages[CHOOSE k \in 1..Len(elig.Stages) :
                                 elig.Stages[k].Name = name].Candidates)
          ELSE 0
        attemptOK(a, elig) ==
          /\ (a.failed_reason_code # "") <=> (keptOf(a.scope) = <<>>)
          /\ a.counts.in_office = sizeOf(elig, "office_candidates")
          /\ a.counts.after_vip = sizeOf(elig, "vip_rule")
          /\ a.counts.after_role = sizeOf(elig, "role_rule")
          /\ a.counts.after_language = sizeOf(elig, "language_rule")
        recordOK(rec) ==
          /\ "attempts" \in DOMAIN rec
          /\ Cardinality({k \in 1..Len(rec.attempts) : rec.attempts[k].scope = "LOCAL"}) = 1
          /\ (\E k \in 1..Len(rec.attempts) : rec.attempts[k].scope = "GLOBAL")
               <=> (e.branch \in {"CROSS", "UNASSIGNED"})
          /\ \A k \in 1..Len(rec.attempts) :
               /\ rec.attempts[k].scope \in {"LOCAL", "GLOBAL"}
               /\ attemptOK(rec.attempts[k], passOf(rec.attempts[k].scope))
    IN  e.branch # "AI_ERROR" =>
          \A k \in 1..Len(e.writes) : recordOK(ReasoningWritten(e, k))

\* C25 (amended): the same, for the reasoning records written with an
\* ASSIGNED or an UNASSIGNED outcome; the DB_ERROR outcome written after a
\* failed write carries the error details instead.
C25_ReasoningOfADecisionHoldsTheAttempts ==
  \A r \in RunIds : \A n \in 1..Len(run[r].log) :
    LET e == run[r].log[n]
        roster == AllManagers(run[r])
        passOf(scope) ==
          IF scope = "LOCAL"
          THEN FilterEligibleManagers(managerByOffice(roster, e.office), Ticket(e.t), e.ai)
          ELSE FilterEligibleManagers(roster, Ticket(e.t), e.ai)
        keptOf(scope) == IF scope = "LOCAL" THEN e.localEligible ELSE e.globalEligible
        sizeOf(elig, name) ==
          IF \E k \in 1..Len(elig.Stages) : elig.Stages[k].Name = name
          THEN Len(elig.Stages[CHOOSE k \in 1..Len(elig.Stages) :
                                 elig.Stages[k].Name = name].Candidates)
          ELSE 0
        attemptOK(a, elig) ==
          /\ (a.failed_reason_code # "") <=> (keptOf(a.scope) = <<>>)
          /\ a.counts.in_office = sizeOf(elig, "office_candidates")
          /\ a.counts.after_vip = sizeOf(elig, "vip_rule")
          /\ a.counts.after_role = sizeOf(elig, "role_rule")
          /\ a.counts.after_language = sizeOf(elig, "language_rule")
        recordOK(rec) ==
          /\ "attempts" \in DOMAIN rec
          /\ Cardinality({k \in 1..Len(rec.attempts) : rec.attempts[k].scope = "LOCAL"}) = 1
          /\ (\E k \in 1..Len(rec.attempts) : rec.attempts[k].scope = "GLOBAL")
               <=> (e.branch \in {"CROSS", "UNASSIGNED"})
          /\ \A k \in 1..Len(rec.attempts) :
               /\ rec.attempts[k].scope \in {"LOCAL", "GLOBAL"}
               /\ attemptOK(rec.attempts[k], passOf(rec.attempts[k].scope))
    IN  e.branch # "AI_ERROR" =>
          \A k \in 1..Len(e.writes) :
            e.writes[k].status # StatusError => recordOK(ReasoningWritten(e, k))

\* an UNASSIGNED outcome was written whose local pass stopped at the VIP rule
\* (two stages recorded, the later counts 0) and whose global pass was
\* evaluated and stopped later
C25_Witness ==
  \E r \in RunIds : \E n \in 1..Len(run[r].log) :
    LET e == run[r].log[n]
    IN  /\ e.branch = "UNASSIGNED"
        /\ e.writes[1].status = "UNASSIGNED" /\ e.writes[1].ok
        /\ Len(e.reasoning.attempts) = 2
        /\ e.reasoning.attempts[1].counts.in_office > 0
        /\ e.reasoning.attempts[1].counts.after_role = 0
        /\ e.reasoning.attempts[1].failed_reason_code # ""
        /\ e.reasoning.attempts[2].counts.after_vip > 0
        /\ e.reasoning.attempts[2].failed_reason_code # ""

C27_CountersMatchPersistedOutcomes ==
  \A r \in SeqRunIds :
    run[r].pc = "done" =>
      LET c == run[r].counts
          pulled == {run[r].tickets[k] : k \in 1..Len(run[r].tickets)}
          persisted(status) ==
            Cardinality({t \in pulled : /\ assignments[t] # NoRow
                                        /\ assignments[t].status = status})
          RECURSIVE sum(_)
          sum(keys) ==
            IF keys = {} THEN 0
            ELSE LET k == CHOOSE x \in keys : TRUE
                 IN  c.topUnassignedReasons[k] + sum(keys \ {k})
      IN  /\ c.assigned = persisted(StatusAssigned)
          /\ c.assigned = c.assignedLocal + c.assignedCrossOffice
          /\ c.unassigned = persisted(StatusUnassigned)
          /\ c.unassigned = sum(UnassignedReasons)
          /\ c.aiErrors = Cardinality({n \in 1..Len(run[r].log) :
                                         run[r].log[n].branch = "AI_ERROR"})

\* C28: in the reasoning record of every assignment, local or cross-office,
\* hash_mod is an index of top2 (0 <= hash_mod < |top2|), the picked manager
\* is the entry of top2 at that index, and each load listed in top2 is the
\* in-run load from before this ticket's increment: the load the run read at
\* its start plus the assignments it had committed to that manager before.
C28_PickedIsTop2AtHashMod ==
  \A r \in RunIds : \A n \in 1..Len(run[r].log) :
    LET e == run[r].log[n]
        rec == e.reasoning
        before(m) ==
          run[r].startLoad[m]
            + Cardinality({j \in 1..(n - 1) :
                             /\ run[r].log[j].manager = m
                             /\ run[r].log[j].writes[1].status = StatusAssigned
                             /\ run[r].log[j].writes[1].ok})
    IN  e.branch \in {"LOCAL", "CROSS"} =>
          /\ rec.picked.hash_mod >= 0
          /\ rec.picked.hash_mod < Len(rec.top2)
          /\ rec.top2[rec.picked.hash_mod + 1].manager_id = rec.picked.manager_id
          /\ rec.picked.manager_id = e.manager
          /\ \A k \in 1..Len(rec.top2) : rec.top2[k].load = before(rec.top2[k].manager_id)

\* the second assignment of a run picked the second of two managers
\* (hash_mod 1), one of whom the run had already given a ticket
C28_Witness ==
  \E r \in RunIds :
    /\ Len(run[r].log) = 2
    /\ run[r].log[1].branch \in {"LOCAL", "CROSS"} /\ run[r].log[1].writes[1].ok
    /\ run[r].log[2].branch \in {"LOCAL", "CROSS"} /\ run[r].log[2].writes[1].ok
    /\ LET rec == run[r].log[2].reasoning
       IN  /\ Len(rec.top2) = 2
           /\ rec.picked.hash_mod = 1
           /\ rec.picked.manager_id = rec.top2[2].manager_id
           /\ rec.top2[2].load = 1
           /\ run[r].startLoad[rec.top2[2].manager_id] = 0

\* C29: every ASSIGNED outcome a run writes records the office of the manager
\* it names; written with reason code ASSIGNED_LOCAL that office is the one
\* SelectOffice chose for the ticket, written with ASSIGNED_CROSS_OFFICE it
\* is another office than the one SelectOffice chose.
C29_AssignedOfficeIsTheManagersOffice ==
  \A r \in RunIds : \A n \in 1..Len(run[r].log) : \A k \in 1..Len(run[r].log[n].writes) :
    LET e == run[r].log[n]
        w == e.writes[k]
        selected == SelectOffice(Ticket(e.t).ID, e.ai, ListBusinessUnits).office
    IN  w.status = StatusAssigned =>
          /\ w.manager \in ManagerIds
          /\ w.office = ManagerTable[w.manager].Office
          /\ w.reasonCode = "ASSIGNED_LOCAL" => w.office = selected
          /\ w.reasonCode = "ASSIGNED_CROSS_OFFICE" => w.office # selected
          /\ w.ok => /\ assignments[e.t].office = ManagerTable[assignments[e.t].manager].Office
                     /\ assignments[e.t].office = w.office

\* one run committed a local assignment in the office selected by the
\* fallback and a cross-office assignment for a ticket routed by coordinates
C29_Witness ==
  \E r \in RunIds : \E i, j \in 1..Len(run[r].log) :
    /\ run[r].log[i].writes[1].status = StatusAssigned
    /\ run[r].log[i].writes[1].reasonCode = "ASSIGNED_LOCAL"
    /\ run[r].log[i].writes[1].ok
    /\ ~run[r].log[i].usedGeo
    /\ run[r].log[j].writes[1].status = StatusAssigned
    /\ run[r].log[j].writes[1].reasonCode = "ASSIGNED_CROSS_OFFICE"
    /\ run[r].log[j].writes[1].ok
    /\ run[r].log[j].usedGeo
    /\ run[r].log[j].writes[1].office # run[r].log[j].office

\* C30: every outcome a run writes, and every row it leaves, has status
\* ASSIGNED exactly when it names a manager, and then reason code
\* ASSIGNED_LOCAL or ASSIGNED_CROSS_OFFICE; with status UNASSIGNED it names
\* no manager and has reason code NO_ELIGIBLE_MANAGERS_GLOBAL; with status
\* ERROR it names no manager, has office UNKNOWN and reason code AI_ERROR or
\* DB_ERROR.
C30_OutcomeShape ==
  LET shapeOK(status, manager, office, reasonCode) ==
        /\ status \in {StatusAssigned, StatusUnassigned, StatusError}
        /\ (status = StatusAssigned) <=> (manager # NoManager)
        /\ status = StatusAssigned =>
             /\ manager \in ManagerIds
             /\ reasonCode \in {"ASSIGNED_LOCAL", "ASSIGNED_CROSS_OFFICE"}
        /\ status = StatusUnassigned =>
             /\ manager = NoManager
             /\ reasonCode = "NO_ELIGIBLE_MANAGERS_GLOBAL"
        /\ status = StatusError =>
             /\ manager = NoManager
             /\ office = "UNKNOWN"
             /\ reasonCode \in {"AI_ERROR", "DB_ERROR"}
  IN  /\ \A r \in RunIds : \A n \in 1..Len(run[r].log) :
           \A k \in 1..Len(run[r].log[n].writes) :
             LET w == run[r].log[n].writes[k]
             IN  shapeOK(w.status, w.manager, w.office, w.reasonCode)
      /\ \A t \in TicketIds :
           assignments[t] # NoRow =>
             shapeOK(assignments[t].status, assignments[t].manager, assignments[t].office,
                     assignments[t].reasonCode)

\* one run left an ERROR row with DB_ERROR after a failed assignment write,
\* and an UNASSIGNED row
C30_Witness ==
  \E r \in RunIds : \E i, j \in 1..Len(run[r].log) :
    /\ Len(run[r].log[i].writes) = 2
    /\ run[r].log[i].writes[1].status = StatusAssigned /\ ~run[r].log[i].writes[1].ok
    /\ run[r].log[i].writes[2].reasonCode = "DB_ERROR" /\ run[r].log[i].writes[2].ok
    /\ assignments[run[r].log[i].t].status = StatusError
    /\ run[r].log[j].writes[1].status = StatusUnassigned /\ run[r].log[j].writes[1].ok
    /\ assignments[run[r].log[j].t].status = StatusUnassigned

====
